---- MODULE Spec2Model ----
(***************************************************************************)
(* commandkit: value resolution of a Config (Define / LoadFile / Process / *)
(* Destroy / Get / GetOr), modelled from config.go, files.go, types.go,    *)
(* validation.go, definition.go, secret.go, get.go and overrides.go.       *)
(*                                                                         *)
(* Go strings are sequences of one-character strings, so that parsing,     *)
(* formatting and masking are computed and not assumed.  Go maps are       *)
(* functions whose DOMAIN is the set of keys that have an entry.           *)
(***************************************************************************)
EXTENDS Integers, Sequences, FiniteSets, TLC

VARIABLES
    definitions,      \* Config.definitions : key -> Definition
    values,           \* Config.values      : key -> any
    secrets,          \* Config.secrets     : SecretStore.secrets, key -> Secret
    flagValues,       \* Config.flagValues  : key -> *string (registered flags)
    fileConfig,       \* Config.fileConfig  : nil or {data, environment}
    overrideWarnings, \* Config.overrideWarnings.warnings
    processed,        \* Config.processed
    environ,          \* the process environment read by os.Getenv
    osArgs,           \* os.Args[1:], a list of --name=value arguments
    errs,             \* the []ConfigError returned by the latest Process()
    ret,              \* the outcome of the latest Get / GetOr call
    lastOp,           \* the operation that ran last
    nDefine,          \* number of Define calls so far
    nLoad,            \* number of LoadFile calls so far
    held,             \* the *Secret the caller holds, obtained through GetSecret
    snap,             \* what the caller noted down of an earlier Process() run
    commands,         \* Config.commands : name -> Command
    globalMiddleware, \* Config.globalMiddleware
    call,              \* the arguments and the result of the latest call that has some
    mw                \* a RateLimitMiddleware and the CommandContext it is called on

vars == <<definitions, values, secrets, flagValues, fileConfig, overrideWarnings,
          processed, environ, osArgs, errs, ret, lastOp, nDefine, nLoad, held, snap,
          commands, globalMiddleware, call, mw>>

\* the command system
cmdVars == <<commands, globalMiddleware>>

----------------------------------------------------------------------------
(* Bounds of the model *)

\* Define calls explored in one run (two keys, or one key and its re-definition)
MaxDefine == 2
\* LoadFile calls explored in one run
MaxLoad == 1

----------------------------------------------------------------------------
(* Strings, values of type `any`, errors *)

EmptyMap == [x \in {} |-> x]

\* m[k] = v in Go
MapSet(m, k, v) == (k :> v) @@ m

Digits == <<"0", "1", "2", "3", "4", "5", "6", "7", "8", "9">>

IsDigit(c) == \E d \in 1..10 : Digits[d] = c

DigitVal(c) == (CHOOSE d \in 1..10 : Digits[d] = c) - 1

RECURSIVE DigitsToInt(_)
DigitsToInt(s) ==
    IF s = <<>> THEN 0
    ELSE 10 * DigitsToInt(SubSeq(s, 1, Len(s) - 1)) + DigitVal(s[Len(s)])

RECURSIVE IntToDigits(_)
IntToDigits(n) ==
    IF n < 10 THEN <<Digits[n + 1]>>
    ELSE Append(IntToDigits(n \div 10), Digits[(n % 10) + 1])

\* the nil interface value, a string, an int64, a bool
Nil == [t |-> "nil", i |-> 0, s |-> <<>>]
VStr(s) == [t |-> "string", i |-> 0, s |-> s]
VInt(n) == [t |-> "int64", i |-> n, s |-> <<>>]
VBool(b) == [t |-> "bool", i |-> IF b THEN 1 ELSE 0, s |-> <<>>]
\* an untyped integer constant passed as `any`: a Go int
VGoInt(n) == [t |-> "int", i |-> n, s |-> <<>>]

\* fmt.Sprintf("%v", value)
Sprintf(v) ==
    CASE v.t = "string" -> v.s
      [] v.t \in {"int64", "int"} -> IF v.i < 0 THEN <<"-">> \o IntToDigits(0 - v.i) ELSE IntToDigits(v.i)
      [] v.t = "bool" -> IF v.i = 1 THEN <<"t", "r", "u", "e">> ELSE <<"f", "a", "l", "s", "e">>
      [] OTHER -> <<"<", "n", "i", "l", ">">>

\* a nil error
NoErr == "nil"

----------------------------------------------------------------------------
(* types.go *)

TypeString == "TypeString"
TypeInt64 == "TypeInt64"
TypeBool == "TypeBool"

\* strconv.ParseInt(raw, 10, 64): an optional sign and at least one digit
\* (the 64-bit range is not reached by the literals of this model)
ParseIntOk(raw) ==
    LET body == IF raw # <<>> /\ raw[1] \in {"+", "-"} THEN Tail(raw) ELSE raw
    IN  body # <<>> /\ \A j \in 1..Len(body) : IsDigit(body[j])

ParseInt(raw) ==
    IF raw[1] = "-" THEN 0 - DigitsToInt(Tail(raw))
    ELSE IF raw[1] = "+" THEN DigitsToInt(Tail(raw))
    ELSE DigitsToInt(raw)

\* strconv.ParseBool
BoolTrueLits == {<<"1">>, <<"t">>, <<"T">>, <<"t", "r", "u", "e">>,
                 <<"T", "R", "U", "E">>, <<"T", "r", "u", "e">>}
BoolFalseLits == {<<"0">>, <<"f">>, <<"F">>, <<"f", "a", "l", "s", "e">>,
                  <<"F", "A", "L", "S", "E">>, <<"F", "a", "l", "s", "e">>}

\* parseValue(raw, valueType, delimiter) -> (value, err)
parseValue(raw, valueType) ==
    IF raw = <<>> THEN [value |-> Nil, err |-> NoErr]
    ELSE CASE valueType = TypeString -> [value |-> VStr(raw), err |-> NoErr]
           [] valueType = TypeInt64 ->
                IF ParseIntOk(raw) THEN [value |-> VInt(ParseInt(raw)), err |-> NoErr]
                ELSE [value |-> Nil, err |-> "invalid int64"]
           [] valueType = TypeBool ->
                IF raw \in BoolTrueLits THEN [value |-> VBool(TRUE), err |-> NoErr]
                ELSE IF raw \in BoolFalseLits THEN [value |-> VBool(FALSE), err |-> NoErr]
                ELSE [value |-> Nil, err |-> "invalid bool"]
           [] OTHER -> [value |-> Nil, err |-> "unknown type"]

----------------------------------------------------------------------------
(* validation.go *)

validateRequired == [Name |-> "required", kind |-> "required", arg |-> 0]
validateMin(n) == [Name |-> "min", kind |-> "min", arg |-> n]
validateMax(n) == [Name |-> "max", kind |-> "max", arg |-> n]
validateMinLength(n) == [Name |-> "minLength", kind |-> "minLength", arg |-> n]

\* Validation.Check(value) -> error
Check(rule, v) ==
    CASE rule.kind = "required" ->
            IF v.t = "nil" THEN "value is required"
            ELSE IF v.t = "string" /\ v.s = <<>> THEN "value is required (empty string)"
            ELSE NoErr
      [] rule.kind = "min" ->
            IF v.t = "int64" /\ v.i < rule.arg THEN "value is less than minimum" ELSE NoErr
      [] rule.kind = "max" ->
            IF v.t = "int64" /\ v.i > rule.arg THEN "value is greater than maximum" ELSE NoErr
      [] rule.kind = "minLength" ->
            IF v.t = "string" /\ Len(v.s) < rule.arg
            THEN "value length is less than minimum" ELSE NoErr
      [] OTHER -> NoErr

\* a loop that runs every rule and returns the error of the last failing one
RECURSIVE RunValidations_LastError(_, _, _)
RunValidations_LastError(rules, v, skipRequired) ==
    IF rules = <<>> THEN NoErr
    ELSE IF skipRequired /\ Head(rules).Name = "required"
         THEN RunValidations_LastError(Tail(rules), v, skipRequired)
         ELSE IF RunValidations_LastError(Tail(rules), v, skipRequired) # NoErr
              THEN RunValidations_LastError(Tail(rules), v, skipRequired)
              ELSE Check(Head(rules), v)

\* the same loop: how many of the rules it calls Check on before it returns
RECURSIVE ChecksRun(_, _)
ChecksRun(rules, v) ==
    IF rules = <<>> THEN 0
    ELSE IF Check(Head(rules), v) # NoErr THEN 1
         ELSE 1 + ChecksRun(Tail(rules), v)

\* for _, validation := range validations { if err := Check(v); err != nil { return err } }
RECURSIVE RunValidations(_, _, _)
RunValidations(rules, v, skipRequired) ==
    IF rules = <<>> THEN NoErr
    ELSE IF skipRequired /\ Head(rules).Name = "required"
         THEN RunValidations(Tail(rules), v, skipRequired)
         ELSE IF Check(Head(rules), v) # NoErr THEN Check(Head(rules), v)
              ELSE RunValidations(Tail(rules), v, skipRequired)

----------------------------------------------------------------------------
(* secret.go *)

\* newSecret(value): no buffer for the empty string
newSecret(value) ==
    IF value = <<>> THEN [hasBuffer |-> FALSE, data |-> <<>>]
    ELSE [hasBuffer |-> TRUE, data |-> value]

\* a Destroy() that leaves the buffer in place
SecretDestroy_Keep(s) == s

\* Secret.Destroy()
SecretDestroy(s) == [hasBuffer |-> FALSE, data |-> <<>>]

\* Secret.IsSet()
IsSet(s) == s.hasBuffer /\ Len(s.data) > 0

\* Secret.Size()
Size(s) == IF s.hasBuffer THEN Len(s.data) ELSE 0

\* Secret.Bytes(): nil without a buffer
SecretBytes(s) == IF ~s.hasBuffer THEN <<>> ELSE s.data

\* Secret.String(): "" without a buffer
SecretString(s) == IF ~s.hasBuffer THEN <<>> ELSE s.data

\* SecretStore.Store(key, value)
Store(store, key, value) == MapSet(store, key, newSecret(value))

\* SecretStore.Get(key): the stored handle, or a fresh empty one
StoreGet(store, key) ==
    IF key \in DOMAIN store THEN store[key] ELSE [hasBuffer |-> FALSE, data |-> <<>>]

\* a DestroyAll that leaves the vault as it is
DestroyAll_Nothing(store) == store

\* SecretStore.DestroyAll(): every handle destroyed, then a fresh map
DestroyAll(store) == EmptyMap

----------------------------------------------------------------------------
(* errors.go *)

RECURSIVE Repeat(_, _)
Repeat(c, n) == IF n <= 0 THEN <<>> ELSE <<c>> \o Repeat(c, n - 1)

\* a mask with four stars between the kept characters whatever the length
maskSecret_FourStars(value) ==
    IF Len(value) <= 4 THEN <<"*", "*", "*", "*">>
    ELSE SubSeq(value, 1, 2) \o <<"*", "*", "*", "*">>
         \o SubSeq(value, Len(value) - 1, Len(value))

\* maskSecret(value)
maskSecret(value) ==
    IF Len(value) <= 4 THEN <<"*", "*", "*", "*">>
    ELSE SubSeq(value, 1, 2) \o Repeat("*", Len(value) - 4)
         \o SubSeq(value, Len(value) - 1, Len(value))

----------------------------------------------------------------------------
(* definition.go *)

\* newDefinitionBuilder(cfg, key).def
newDefinition(key) ==
    [key |-> key, valueType |-> TypeString, envVar |-> "", flag |-> "",
     defaultValue |-> Nil, required |-> FALSE, secret |-> FALSE,
     delimiter |-> <<",">>, validations |-> <<>>]

Int64(d) == [d EXCEPT !.valueType = TypeInt64]
Env(d, envVar) == [d EXCEPT !.envVar = envVar]
Flag(d, flag) == [d EXCEPT !.flag = flag]
Required(d) ==
    [d EXCEPT !.required = TRUE, !.validations = Append(@, validateRequired)]
Secret(d) == [d EXCEPT !.secret = TRUE]
Default(d, value) == [d EXCEPT !.defaultValue = value]
Max(d, n) == [d EXCEPT !.validations = Append(@, validateMax(n))]
Min(d, n) == [d EXCEPT !.validations = Append(@, validateMin(n))]

----------------------------------------------------------------------------
(* files.go *)

\* values of a parsed JSON / YAML / TOML tree
FStr(s) == [kind |-> "string", s |-> s, i |-> 0, items |-> <<>>]
FNum(n) == [kind |-> "number", s |-> <<>>, i |-> n, items |-> <<>>]
FBool(b) == [kind |-> "bool", s |-> <<>>, i |-> IF b THEN 1 ELSE 0, items |-> <<>>]
FList(items) == [kind |-> "list", s |-> <<>>, i |-> 0, items |-> items]
FNull == [kind |-> "null", s |-> <<>>, i |-> 0, items |-> <<>>]
\* a nested table: env name -> (key -> value) under "environments"
FMap(m) == [kind |-> "map", s |-> <<>>, i |-> 0, items |-> m]

NilFileConfig == [isNil |-> TRUE, data |-> EmptyMap, environment |-> ""]

\* strings.ToLower on the key names of this model
ToLower(key) ==
    CASE key = "PORT" -> "port"
      [] key = "API_KEY" -> "api_key"
      [] OTHER -> key

\* a merge in which the data loaded first wins
mergeFileData_KeepFirst(fc, newData) ==
    LET base == IF fc.isNil THEN [isNil |-> FALSE, data |-> EmptyMap, environment |-> ""]
                ELSE fc
    IN  [base EXCEPT !.data = base.data @@ newData]

\* Config.mergeFileData(newData): top-level keys of newData overwrite
mergeFileData(fc, newData) ==
    LET base == IF fc.isNil THEN [isNil |-> FALSE, data |-> EmptyMap, environment |-> ""]
                ELSE fc
    IN  [base EXCEPT !.data = newData @@ base.data]

\* a lookup that never consults the active environment
getFileValue_TopLevelOnly(fc, key) ==
    LET absent == [value |-> FNull, exists |-> FALSE]
    IN  IF fc.isNil THEN absent
        ELSE IF key \in DOMAIN fc.data THEN [value |-> fc.data[key], exists |-> TRUE]
        ELSE IF ToLower(key) \in DOMAIN fc.data
             THEN [value |-> fc.data[ToLower(key)], exists |-> TRUE]
             ELSE absent

\* Config.getFileValue(key) -> (value, exists)
getFileValue(fc, key) ==
    LET absent == [value |-> FNull, exists |-> FALSE]
        envHit ==
            IF fc.environment # "" /\ "environments" \in DOMAIN fc.data
               /\ fc.data["environments"].kind = "map"
               /\ fc.environment \in DOMAIN fc.data["environments"].items
               /\ fc.data["environments"].items[fc.environment].kind = "map"
            THEN LET cur == fc.data["environments"].items[fc.environment].items
                 IN  IF key \in DOMAIN cur THEN [value |-> cur[key], exists |-> TRUE]
                     ELSE IF ToLower(key) \in DOMAIN cur
                          THEN [value |-> cur[ToLower(key)], exists |-> TRUE]
                          ELSE absent
            ELSE absent
    IN  IF fc.isNil THEN absent
        ELSE IF envHit.exists THEN envHit
        ELSE IF key \in DOMAIN fc.data THEN [value |-> fc.data[key], exists |-> TRUE]
        ELSE IF ToLower(key) \in DOMAIN fc.data
             THEN [value |-> fc.data[ToLower(key)], exists |-> TRUE]
             ELSE absent

\* Config.LoadFiles(filenames...): LoadFile on each file in turn
RECURSIVE LoadFilesOn(_, _)
LoadFilesOn(fc, files) ==
    IF files = <<>> THEN fc
    ELSE LoadFilesOn(mergeFileData(fc, Head(files)), Tail(files))

\* Config.SetEnvironment(env): an error and no change when no file was loaded
SetEnvironmentOn(fc, env) ==
    IF fc.isNil THEN fc ELSE [fc EXCEPT !.environment = env]

\* fmt.Sprintf("%v", item) of a scalar of the file tree
FileItemString(item) ==
    CASE item.kind = "string" -> item.s
      [] item.kind = "number" -> Sprintf(VInt(item.i))
      [] item.kind = "bool" -> Sprintf(VBool(item.i = 1))
      [] OTHER -> Sprintf(Nil)

\* strings.Join(strs, delimiter)
RECURSIVE Join(_, _)
Join(items, delimiter) ==
    IF items = <<>> THEN <<>>
    ELSE IF Len(items) = 1 THEN FileItemString(items[1])
    ELSE FileItemString(items[1]) \o delimiter \o Join(Tail(items), delimiter)

\* the type switch of resolveValueWithFiles: is the file value convertible
FileSupported(fv) == fv.kind \in {"string", "bool", "number", "list"}

\* the type switch of resolveValueWithFiles: the file value as a raw string
FileRaw(fv, def) ==
    CASE fv.kind = "string" -> fv.s
      [] fv.kind \in {"bool", "number"} -> FileItemString(fv)
      [] fv.kind = "list" -> Join(fv.items, def.delimiter)
      [] OTHER -> <<>>

----------------------------------------------------------------------------
(* the process environment and the command line *)

\* os.Getenv(name): "" for a variable that is not set
Getenv(env, name) == IF name \in DOMAIN env THEN env[name] ELSE <<>>

\* FlagSet.Parse(args): each --name=value sets the registered flag of that name;
\* parsing stops at the first flag that is not registered (the error is ignored).
\* A registered key k carries the flag name flagNames[k].
\* a parser that appends to the value a flag already has
RECURSIVE ParseArgs_Accumulate(_, _, _)
ParseArgs_Accumulate(fvals, flagNames, args) ==
    IF args = <<>> THEN fvals
    ELSE LET hit == {k \in DOMAIN fvals : flagNames[k] = Head(args).name}
         IN  IF hit = {} THEN fvals
             ELSE ParseArgs_Accumulate(
                      [k \in DOMAIN fvals |->
                          IF k \in hit THEN fvals[k] \o Head(args).val ELSE fvals[k]],
                      flagNames, Tail(args))

RECURSIVE ParseArgs(_, _, _)
ParseArgs(fvals, flagNames, args) ==
    IF args = <<>> THEN fvals
    ELSE LET hit == {k \in DOMAIN fvals : flagNames[k] = Head(args).name}
         IN  IF hit = {} THEN fvals
             ELSE ParseArgs([k \in DOMAIN fvals |->
                                IF k \in hit THEN Head(args).val ELSE fvals[k]],
                            flagNames, Tail(args))

----------------------------------------------------------------------------
(* files.go: resolution of one key *)

\* lines 498-511: the default is returned unparsed; rules named "required" are skipped
\* a default branch that runs the "required" rules as well
ResolveDefault_RunRequired(def) ==
    [value |-> def.defaultValue, source |-> "default",
     err |-> RunValidations(def.validations, def.defaultValue, FALSE)]

ResolveDefault(def) ==
    [value |-> def.defaultValue, source |-> "default",
     err |-> RunValidations(def.validations, def.defaultValue, TRUE)]

\* lines 513-520: no value found
ResolveNone(def) ==
    [value |-> Nil, source |-> "none",
     err |-> IF def.required THEN "required value not provided" ELSE NoErr]

\* lines 522-535: parse the raw string, then run the validations
ParseAndValidate(rawValue, source, def) ==
    LET parsed == parseValue(rawValue, def.valueType)
    IN  IF parsed.err # NoErr
        THEN [value |-> VStr(rawValue), source |-> source, err |-> parsed.err]
        ELSE [value |-> parsed.value, source |-> source,
              err |-> RunValidations(def.validations, parsed.value, FALSE)]

\* lines 482-496: the first non-empty of the environment variable and the flag
EnvThenFlag(key, def, fvals, env) ==
    LET envVal == IF def.envVar # "" THEN Getenv(env, def.envVar) ELSE <<>>
        flagVal == IF def.flag # "" /\ key \in DOMAIN fvals THEN fvals[key] ELSE <<>>
    IN  IF envVal # <<>> THEN [raw |-> envVal, source |-> "env"]
        ELSE IF flagVal # <<>> THEN [raw |-> flagVal, source |-> "flag"]
        ELSE [raw |-> <<>>, source |-> ""]

\* a resolver that consults the environment and the flag before the file
resolveValueWithFiles_EnvFirst(key, def, fvals, env, fc) ==
    LET fileValue == getFileValue(fc, key)
        fileRaw == IF fileValue.exists THEN FileRaw(fileValue.value, def) ELSE <<>>
        lower == EnvThenFlag(key, def, fvals, env)
        rawValue == IF lower.raw # <<>> THEN lower.raw ELSE fileRaw
        source == IF lower.raw # <<>> THEN lower.source ELSE "file"
    IN  IF fileValue.exists /\ ~FileSupported(fileValue.value)
        THEN [value |-> Nil, source |-> "file", err |-> "unsupported file value type"]
        ELSE IF rawValue = <<>> /\ def.defaultValue # Nil THEN ResolveDefault(def)
        ELSE IF rawValue = <<>> THEN ResolveNone(def)
        ELSE ParseAndValidate(rawValue, source, def)

\* Config.resolveValueWithFiles(key, def) -> (value, source, err)
resolveValueWithFiles(key, def, fvals, env, fc) ==
    LET fileValue == getFileValue(fc, key)
        fileRaw == IF fileValue.exists THEN FileRaw(fileValue.value, def) ELSE <<>>
        lower == EnvThenFlag(key, def, fvals, env)
        rawValue == IF fileRaw # <<>> THEN fileRaw ELSE lower.raw
        source == IF fileRaw # <<>> THEN "file" ELSE lower.source
    IN  IF fileValue.exists /\ ~FileSupported(fileValue.value)
        THEN [value |-> Nil, source |-> "file", err |-> "unsupported file value type"]
        ELSE IF rawValue = <<>> /\ def.defaultValue # Nil THEN ResolveDefault(def)
        ELSE IF rawValue = <<>> THEN ResolveNone(def)
        ELSE ParseAndValidate(rawValue, source, def)

----------------------------------------------------------------------------
(* overrides.go *)

\* Config.maskValueIfNeeded(key, value)
maskValueIfNeeded(defs, key, value) ==
    IF key \in DOMAIN defs /\ defs[key].secret THEN maskSecret(value) ELSE value

OverrideWarning(key, source, overrideBy, old, new) ==
    [Key |-> key, Command |-> "", Source |-> source, OverrideBy |-> overrideBy,
     OldValue |-> old, NewValue |-> new]

\* an override pass that reports environment over default also under a flag
checkSourceOverridesForKey_EnvAlways(defs, key, fvals, env) ==
    LET def == defs[key]
        flagValue == IF def.flag # "" /\ key \in DOMAIN fvals THEN fvals[key] ELSE <<>>
        envValue == IF def.envVar # "" THEN Getenv(env, def.envVar) ELSE <<>>
        hasFlag == flagValue # <<>>
        hasEnv == envValue # <<>>
        hasDefault == def.defaultValue # Nil
        defaultValue == IF hasDefault THEN Sprintf(def.defaultValue) ELSE <<>>
        m(v) == maskValueIfNeeded(defs, key, v)
    IN  (IF hasFlag /\ hasEnv
         THEN <<OverrideWarning(key, "environment", "flag", m(envValue), m(flagValue))>>
         ELSE <<>>)
        \o (IF hasFlag /\ hasDefault
            THEN <<OverrideWarning(key, "default", "flag", m(defaultValue), m(flagValue))>>
            ELSE <<>>)
        \o (IF hasEnv /\ hasDefault
            THEN <<OverrideWarning(key, "default", "environment", m(defaultValue), m(envValue))>>
            ELSE <<>>)

\* Config.checkSourceOverridesForKey(key, def, warnings): the warnings it adds
checkSourceOverridesForKey(defs, key, fvals, env) ==
    LET def == defs[key]
        flagValue == IF def.flag # "" /\ key \in DOMAIN fvals THEN fvals[key] ELSE <<>>
        envValue == IF def.envVar # "" THEN Getenv(env, def.envVar) ELSE <<>>
        hasFlag == flagValue # <<>>
        hasEnv == envValue # <<>>
        hasDefault == def.defaultValue # Nil
        defaultValue == IF hasDefault THEN Sprintf(def.defaultValue) ELSE <<>>
        m(v) == maskValueIfNeeded(defs, key, v)
    IN  (IF hasFlag /\ hasEnv
         THEN <<OverrideWarning(key, "environment", "flag", m(envValue), m(flagValue))>>
         ELSE <<>>)
        \o (IF hasFlag /\ hasDefault
            THEN <<OverrideWarning(key, "default", "flag", m(defaultValue), m(flagValue))>>
            ELSE <<>>)
        \o (IF hasEnv /\ hasDefault /\ ~hasFlag
            THEN <<OverrideWarning(key, "default", "environment", m(defaultValue), m(envValue))>>
            ELSE <<>>)

\* Config.checkSourceOverrides(), the definitions visited in the given order
RECURSIVE checkSourceOverrides(_, _, _, _)
checkSourceOverrides(defs, order, fvals, env) ==
    IF order = <<>> THEN <<>>
    ELSE checkSourceOverridesForKey(defs, Head(order), fvals, env)
         \o checkSourceOverrides(defs, Tail(order), fvals, env)

----------------------------------------------------------------------------
(* get.go *)

NoValue == [panic |-> "", value |-> Nil]
Panic(msg) == [panic |-> msg, value |-> Nil]

\* value.(T)
TypeAssert(v, T) == v.t # "nil" /\ (T = "any" \/ v.t = T)

\* a Get that does not look at the secret mark of the key
Get_NoSecretCheck(vals, defs, key, T) ==
    IF key \notin DOMAIN vals THEN Panic("not found")
    ELSE IF ~TypeAssert(vals[key], T) THEN Panic("wrong type")
    ELSE [panic |-> "", value |-> vals[key]]

\* Get[T](c, key)
Get(vals, defs, key, T) ==
    IF key \notin DOMAIN vals THEN Panic("not found")
    ELSE IF key \in DOMAIN defs /\ defs[key].secret THEN Panic("is a secret")
    ELSE IF ~TypeAssert(vals[key], T) THEN Panic("wrong type")
    ELSE [panic |-> "", value |-> vals[key]]

\* a GetOr that returns the entry without the type assertion
GetOr_NoTypeCheck(vals, key, T, defaultValue) ==
    IF key \notin DOMAIN vals \/ vals[key] = Nil THEN [panic |-> "", value |-> defaultValue]
    ELSE [panic |-> "", value |-> vals[key]]

\* GetOr[T](c, key, defaultValue)
GetOr(vals, key, T, defaultValue) ==
    IF key \notin DOMAIN vals \/ vals[key] = Nil THEN [panic |-> "", value |-> defaultValue]
    ELSE IF ~TypeAssert(vals[key], T) THEN [panic |-> "", value |-> defaultValue]
    ELSE [panic |-> "", value |-> vals[key]]

\* Config.Has(key)
Has(vals, key) == key \in DOMAIN vals /\ vals[key] # Nil

\* Config.GetSecret(key)
GetSecret(store, key) == StoreGet(store, key)

\* Config.IsSecret(key)
IsSecret(defs, key) == key \in DOMAIN defs /\ defs[key].secret

----------------------------------------------------------------------------
(* config.go: Process *)

SecretPlaceholder == <<"[", "S", "E", "C", "R", "E", "T", "]">>

\* lines 131-142: the error record of a failing key
ConfigError(key, def, r) ==
    [Key |-> key, Source |-> r.source,
     Value |-> IF r.value = Nil THEN <<>>
               ELSE IF def.secret THEN maskSecret(Sprintf(r.value))
               ELSE Sprintf(r.value),
     Message |-> r.err]

\* a store that also writes the real value of a secret into the values map
StoreValue_Plain(st, key, def, r) ==
    IF def.secret /\ r.value # Nil
    THEN [st EXCEPT !.secrets = Store(@, key, Sprintf(r.value)),
                    !.values = MapSet(@, key, r.value)]
    ELSE [st EXCEPT !.values = MapSet(@, key, r.value)]

\* a store that keeps a secret in the vault only, without the placeholder
StoreValue_VaultOnly(st, key, def, r) ==
    IF def.secret /\ r.value # Nil
    THEN [st EXCEPT !.secrets = Store(@, key, Sprintf(r.value))]
    ELSE [st EXCEPT !.values = MapSet(@, key, r.value)]

\* lines 146-155: where a resolved value is stored
StoreValue(st, key, def, r) ==
    IF def.secret /\ r.value # Nil
    THEN [st EXCEPT !.secrets = Store(@, key, Sprintf(r.value)),
                    !.values = MapSet(@, key, VStr(SecretPlaceholder))]
    ELSE [st EXCEPT !.values = MapSet(@, key, r.value)]

\* a loop body that stores the value of a failing key next to its error
ProcessKey_StoreOnError(st, key, def, r) ==
    IF r.err # NoErr
    THEN [StoreValue(st, key, def, r) EXCEPT !.errs = Append(@, ConfigError(key, def, r))]
    ELSE StoreValue(st, key, def, r)

\* lines 128-156: one pass of the loop body
ProcessKey(st, key, def, r) ==
    IF r.err # NoErr
    THEN [st EXCEPT !.errs = Append(@, ConfigError(key, def, r))]
    ELSE StoreValue(st, key, def, r)

\* a loop that returns at the first failing key
RECURSIVE ProcessLoop_StopAtError(_, _, _, _, _, _)
ProcessLoop_StopAtError(st, order, defs, fvals, env, fc) ==
    IF order = <<>> \/ st.errs # <<>> THEN st
    ELSE ProcessLoop_StopAtError(
            ProcessKey(st, Head(order), defs[Head(order)],
                       resolveValueWithFiles(Head(order), defs[Head(order)], fvals, env, fc)),
            Tail(order), defs, fvals, env, fc)

\* lines 128-156: the loop over the definitions, visited in the given order
RECURSIVE ProcessLoop(_, _, _, _, _, _)
ProcessLoop(st, order, defs, fvals, env, fc) ==
    IF order = <<>> THEN st
    ELSE ProcessLoop(
            ProcessKey(st, Head(order), defs[Head(order)],
                       resolveValueWithFiles(Head(order), defs[Head(order)], fvals, env, fc)),
            Tail(order), defs, fvals, env, fc)

\* lines 108-114: flags of the definitions that have one are registered once
RegisterFlags(fvals, defs) ==
    [k \in DOMAIN fvals \cup {d \in DOMAIN defs : defs[d].flag # ""} |->
        IF k \in DOMAIN fvals THEN fvals[k] ELSE <<>>]

\* an iteration order of a Go map: any order of its keys
Orders(S) ==
    {o \in [1..Cardinality(S) -> S] : \A a, b \in 1..Cardinality(S) : o[a] = o[b] => a = b}

----------------------------------------------------------------------------
(* The inputs explored: keys, definitions, environment, command line, files *)

Keys == {"PORT", "API_KEY"}

\* the flag name a definition of the key registers, as in .Flag("port")
FlagNames == [k \in Keys |-> IF k = "PORT" THEN "port" ELSE "api-key"]

\* cfg.Define("PORT").Int64().Env("PORT").Flag("port").Default(int64(8)).Max(10)
PortDefault ==
    Max(Default(Flag(Env(Int64(newDefinition("PORT")), "PORT"), "port"), VInt(8)), 10)
\* the same with a default that breaks the max rule
PortBadDefault ==
    Max(Default(Flag(Env(Int64(newDefinition("PORT")), "PORT"), "port"), VInt(80)), 10)
\* cfg.Define("PORT").Int64().Env("PORT").Flag("port").Default(8).Max(10): the
\* default written as an untyped constant
PortIntDefault ==
    Max(Default(Flag(Env(Int64(newDefinition("PORT")), "PORT"), "port"), VGoInt(8)), 10)
\* cfg.Define("PORT").Int64().Env("PORT").Flag("port"): optional, no default
PortOptional == Flag(Env(Int64(newDefinition("PORT")), "PORT"), "port")
\* cfg.Define("PORT").Int64().Env("PORT").Flag("port").Secret().Required().Max(10)
PortSecret ==
    Max(Required(Secret(Flag(Env(Int64(newDefinition("PORT")), "PORT"), "port"))), 10)
\* cfg.Define("PORT").String().Env("PORT").Required().Default("")
PortEmptyDefault == Default(Required(Env(newDefinition("PORT"), "PORT")), VStr(<<>>))
\* cfg.Define("API_KEY").String().Env("API_KEY").Secret().Required()
ApiKey == Required(Secret(Env(newDefinition("API_KEY"), "API_KEY")))

DefChoices(key) ==
    IF key = "PORT"
    THEN {PortDefault, PortBadDefault, PortOptional, PortSecret, PortEmptyDefault}
    ELSE {ApiKey}

EnvChoices ==
    {("PORT" :> p) @@ ("API_KEY" :> a) :
        p \in {<<>>, <<"5">>, <<"5", "0">>},
        a \in {<<>>, <<"s", "3", "c", "r", "3", "t">>}}

ArgChoices ==
    {<<>>, <<[name |-> "port", val |-> <<"6">>]>>, <<[name |-> "port", val |-> <<"y">>]>>}

FileChoices ==
    {("PORT" :> FStr(<<"7">>)), ("PORT" :> FNum(70)), ("PORT" :> FNull),
     ("PORT" :> FStr(<<>>))}

\* the strings handed to maskSecret: every string over MaskAlphabet of at
\* most MaxMaskLen bytes
MaxMaskLen == 6
MaskAlphabet == {"a", "b", "*"}
MaskInputs == UNION {[1..n -> MaskAlphabet] : n \in 0..MaxMaskLen}

\* the values handed to SecretStore.Store
StoreValues == {<<>>, <<"k">>, <<"a", "b">>}

\* files with an `environments` subtree
TreeBase ==
    ("PORT" :> FStr(<<"7">>)) @@ ("port" :> FStr(<<"9">>))
    @@ ("environments" :>
            FMap(("dev" :> FMap(("PORT" :> FStr(<<"3">>)) @@ ("port" :> FStr(<<"4">>))))
                 @@ ("prod" :> FMap(("port" :> FStr(<<"4">>))))))
TreeLower ==
    ("port" :> FStr(<<"2">>))
    @@ ("environments" :> FMap(("prod" :> FMap(("port" :> FStr(<<"6">>))))))
TreeEnvOnly ==
    ("environments" :> FMap(("dev" :> FMap(("port" :> FStr(<<"1">>))))))

TreeChoices == {TreeBase, TreeLower, TreeEnvOnly}

\* files handed to one LoadFiles call
MaxFiles == 2

\* the argument lists of LoadFiles
FileLists == UNION {[1..n -> TreeChoices] : n \in 1..MaxFiles}

\* the names handed to SetEnvironment
EnvNames == {"", "dev", "prod"}

GetTypes == {"string", "int64"}

\* the fallback handed to GetOr, one per type
GetOrDefault(T) == IF T = "string" THEN VStr(<<"d">>) ELSE VInt(3)

NoRet == [op |-> "", key |-> "", T |-> "", panic |-> "", value |-> Nil]

----------------------------------------------------------------------------
(* command.go, command_builder.go, config.go: commands and middleware *)

\* one element of an argument list: a word, or a flag with its value
\* ("--port=6" is FlagTok("port", <<"6">>))
Word(w) == [name |-> "", val |-> <<>>, word |-> w]
FlagTok(n, v) == [name |-> n, val |-> v, word |-> ""]

\* flag.FlagSet.Parse(args): parsing stops at the first argument that is no flag
RECURSIVE LeadingFlags(_)
LeadingFlags(args) ==
    IF args = <<>> \/ Head(args).word # "" THEN <<>>
    ELSE <<Head(args)>> \o LeadingFlags(Tail(args))

\* cfg.UseMiddlewareForSubcommands(command, names, m) with a middleware m of
\* the application
MwSub(id, callsNext, command, names) ==
    [id |-> id, callsNext |-> callsNext, kind |-> "subcommands",
     command |-> command, names |-> names]

\* a CommandMiddleware of the application: it notes its start, calls next or
\* returns an error of its own, and notes its end
Mw(id, callsNext) == [id |-> id, callsNext |-> callsNext, kind |-> "all",
                      command |-> "", names |-> {}]

\* what a call of a CommandFunc on the context of one Execute does: the
\* error it returns, the events in their order, the values of ctx.Config
FuncCall(fn, ctx) ==
    [err |-> NoErr, trace |-> <<[ev |-> "func", id |-> fn]>>, values |-> ctx.values]

\* m(next)(ctx) for a middleware of the application
UserMw(m, next, ctx) ==
    IF m.callsNext
    THEN [err |-> next.err,
          trace |-> <<[ev |-> "enter", id |-> m.id]>> \o next.trace
                    \o <<[ev |-> "exit", id |-> m.id]>>,
          values |-> next.values]
    ELSE [err |-> "stopped by middleware",
          trace |-> <<[ev |-> "enter", id |-> m.id], [ev |-> "exit", id |-> m.id]>>,
          values |-> ctx.values]

\* the wrappers of UseMiddlewareForCommands / UseMiddlewareForSubcommands
\* call the middleware for the contexts they name and next directly otherwise
ApplyMw(m, next, ctx) ==
    IF \/ m.kind = "all"
       \/ m.kind = "commands" /\ ctx.Command \in m.names
       \/ m.kind = "subcommands" /\ ctx.Command = m.command /\ ctx.SubCommand \in m.names
    THEN UserMw(m, next, ctx)
    ELSE next

\* a wrapping loop that runs from the first middleware to the last
RECURSIVE WrapLoop_Forward(_, _, _, _)
WrapLoop_Forward(mws, i, f, ctx) ==
    IF i < 1 THEN f
    ELSE WrapLoop_Forward(mws, i - 1, ApplyMw(mws[Len(mws) + 1 - i], f, ctx), ctx)

\* for i := len(mws) - 1; i >= 0; i-- { f = mws[i](f) }
RECURSIVE WrapLoop(_, _, _, _)
WrapLoop(mws, i, f, ctx) ==
    IF i < 1 THEN f
    ELSE WrapLoop(mws, i - 1, ApplyMw(mws[i], f, ctx), ctx)

\* newCommandBuilder(cfg, name).cmd
newCommand(name) ==
    [Name |-> name, Func |-> "", Aliases |-> <<>>, Definitions |-> EmptyMap,
     SubCommands |-> EmptyMap, Middleware |-> <<>>]

\* CommandBuilder.Func, Aliases, Middleware
CmdFunc(cmd, fn) == [cmd EXCEPT !.Func = fn]
CmdAliases(cmd, aliases) == [cmd EXCEPT !.Aliases = aliases]
CmdMiddleware(cmd, m) == [cmd EXCEPT !.Middleware = Append(@, m)]

\* a sequence of definitions laid over a map, in their order
RECURSIVE DefineAll(_, _)
DefineAll(defs, ds) ==
    IF ds = <<>> THEN defs ELSE DefineAll(MapSet(defs, Head(ds).key, Head(ds)), Tail(ds))

\* CommandBuilder.Config(fn): the global definitions are copied, fn defines
\* its keys over the copy, and the result becomes cmd.Definitions
CmdConfig(cmd, globalDefs, ds) ==
    [cmd EXCEPT !.Definitions = DefineAll(globalDefs, ds) @@ @]

\* CommandBuilder.SubCommand(name) and the chain that follows it
CmdSubCommand(cmd, sub) == [cmd EXCEPT !.SubCommands = MapSet(@, sub.Name, sub)]

\* a lookup that tries the aliases before the names
FindSubCommand_AliasFirst(cmd, name) ==
    LET byAlias == {n \in DOMAIN cmd.SubCommands :
                      \E i \in 1..Len(cmd.SubCommands[n].Aliases) :
                          cmd.SubCommands[n].Aliases[i] = name}
    IN  IF byAlias # {} THEN byAlias
        ELSE IF name \in DOMAIN cmd.SubCommands THEN {name} ELSE {}

\* Command.FindSubCommand(name): the names it can return (none when it
\* returns nil); an alias shared by several subcommands is found in the
\* order the map happens to be visited
FindSubCommand(cmd, name) ==
    IF name \in DOMAIN cmd.SubCommands THEN {name}
    ELSE {n \in DOMAIN cmd.SubCommands :
            \E i \in 1..Len(cmd.SubCommands[n].Aliases) : cmd.SubCommands[n].Aliases[i] = name}

\* Command.Execute(ctx), lines 44-86: the outcomes it can have
CommandExecute(cmd, ctx, env, fc, args0) ==
    IF DOMAIN cmd.Definitions = {}
    THEN {WrapLoop(cmd.Middleware, Len(cmd.Middleware), FuncCall(cmd.Func, ctx), ctx)}
    ELSE {LET fv0 == [k \in {d \in DOMAIN cmd.Definitions : cmd.Definitions[d].flag # ""} |-> <<>>]
              fv1 == ParseArgs(fv0, FlagNames, LeadingFlags(ctx.Args))
              fv2 == ParseArgs(fv1, FlagNames, args0)
              st == ProcessLoop([values |-> EmptyMap, secrets |-> EmptyMap, errs |-> <<>>],
                                order, cmd.Definitions, fv2, env, fc)
              ctx2 == [ctx EXCEPT !.values = st.values]
          IN  IF st.errs # <<>>
              THEN [err |-> "command configuration errors", trace |-> <<>>,
                    values |-> ctx.values]
              ELSE WrapLoop(cmd.Middleware, Len(cmd.Middleware),
                            FuncCall(cmd.Func, ctx2), ctx2)
          : order \in Orders(DOMAIN cmd.Definitions)}

\* Config.executeWithGlobalMiddleware(cmd, ctx)
executeWithGlobalMiddleware(gmw, cmd, ctx, env, fc, args0) ==
    {WrapLoop(gmw, Len(gmw), inner, ctx) : inner \in CommandExecute(cmd, ctx, env, fc, args0)}

\* NewCommandContext(args, config, command, subCommand)
NewCommandContext(args, vals, command, subCommand) ==
    [Args |-> args, values |-> vals, Command |-> command, SubCommand |-> subCommand]

\* what one Execute did: the error returned, the events, the context the
\* command was dispatched with, and the help shown ("" for none)
ExecResult(r, ctx, help) ==
    [err |-> r.err, trace |-> r.trace, values |-> r.values, Command |-> ctx.Command,
     SubCommand |-> ctx.SubCommand, Args |-> ctx.Args, help |-> help]
NoRun(err, vals) == [err |-> err, trace |-> <<>>, values |-> vals]
NoCtx == NewCommandContext(<<>>, EmptyMap, "", "")

\* Config.ShowCommandHelp(commandName)
ShowCommandHelp(cmds, commandName) ==
    IF commandName \notin DOMAIN cmds
    THEN ExecResult(NoRun("unknown command", EmptyMap), NoCtx, "")
    ELSE ExecResult(NoRun(NoErr, EmptyMap), NoCtx, commandName)

\* Config.ShowGlobalHelp()
ShowGlobalHelp == ExecResult(NoRun(NoErr, EmptyMap), NoCtx, "<global>")

HelpWords == {"help", "--help", "-h"}

\* Config.Execute(args), lines 343-374: the branch for len(args) >= 2
ExecuteCommand(args, cmds, gmw, vals, env, fc, args0) ==
    IF args[2].word \in HelpWords
    THEN {IF Len(args) > 2 THEN ShowCommandHelp(cmds, args[3].word) ELSE ShowGlobalHelp}
    ELSE LET commandName == args[2].word
             remainingArgs == SubSeq(args, 3, Len(args))
         IN  IF commandName \notin DOMAIN cmds
             THEN {ExecResult(NoRun("unknown command", EmptyMap), NoCtx, "")}
             ELSE LET cmd == cmds[commandName]
                      ctx == NewCommandContext(remainingArgs, vals, commandName, "")
                      subs == IF remainingArgs = <<>> THEN {}
                              ELSE FindSubCommand(cmd, remainingArgs[1].word)
                  IN  IF subs # {}
                      THEN UNION {LET sctx == [ctx EXCEPT !.SubCommand = remainingArgs[1].word,
                                                          !.Args = Tail(remainingArgs)]
                                  IN  {ExecResult(r, sctx, "") :
                                         r \in executeWithGlobalMiddleware(
                                                   gmw, cmd.SubCommands[n], sctx, env, fc, args0)}
                                  : n \in subs}
                      ELSE {ExecResult(r, ctx, "") :
                              r \in executeWithGlobalMiddleware(gmw, cmd, ctx, env, fc, args0)}

----------------------------------------------------------------------------
(* middleware.go *)

\* an error as the pieces of its message; nil has none
NilError == <<>>

\* what calling the wrapped next does: it returns its error, and was called once
NextCall(err) == [err |-> err, calls |-> 1]

\* an auth middleware that calls next whatever authFunc returns
AuthMiddleware_CallsAnyway(authErr, next) ==
    IF authErr # NilError
    THEN [err |-> <<"authentication failed: ">> \o authErr, calls |-> next.calls]
    ELSE next

\* AuthMiddleware(authFunc)(next)(ctx), authFunc returning authErr
AuthMiddleware(authErr, next) ==
    IF authErr # NilError
    THEN [err |-> <<"authentication failed: ">> \o authErr, calls |-> 0]
    ELSE next

\* a rate limiter that rejects the invocation that reaches the maximum
RateLimitMiddleware_AtMax(maxExecutions, window, next, data) ==
    LET count == (IF "execution_count" \in DOMAIN data THEN data["execution_count"] ELSE 0) + 1
        data2 == MapSet(data, "execution_count", count)
    IN  IF count >= maxExecutions
        THEN [err |-> <<"rate limit exceeded: ">> \o Sprintf(VInt(maxExecutions))
                      \o <<" executions allowed per ", window>>,
              calls |-> 0, data |-> data2]
        ELSE [err |-> next.err, calls |-> next.calls, data |-> data2]

\* RateLimitMiddleware(maxExecutions, window)(next)(ctx), ctx.data being `data`
RateLimitMiddleware(maxExecutions, window, next, data) ==
    LET count == (IF "execution_count" \in DOMAIN data THEN data["execution_count"] ELSE 0) + 1
        data2 == MapSet(data, "execution_count", count)
    IN  IF count > maxExecutions
        THEN [err |-> <<"rate limit exceeded: ">> \o Sprintf(VInt(maxExecutions))
                      \o <<" executions allowed per ", window>>,
              calls |-> 0, data |-> data2]
        ELSE [err |-> next.err, calls |-> next.calls, data |-> data2]

\* the limits, windows and errors explored, and the invocations on one context
MaxRate == 3
MaxInvoke == 5
Windows == {"1m0s", "1s"}
NextErrors == {NilError, <<"command error">>}
AuthErrors == {NilError, <<"auth failed">>, <<"token expired">>}

----------------------------------------------------------------------------
(* Definitions with several validation rules *)

\* rules a builder chain adds to one definition
MaxRules == 3

\* the builder calls that add a rule
RuleSteps == {"Required", "Min(5)", "Max(3)", "Max(10)"}

\* one builder call on a definition
ApplyStep(d, step) ==
    CASE step = "Required" -> Required(d)
      [] step = "Min(5)" -> Min(d, 5)
      [] step = "Max(3)" -> Max(d, 3)
      [] step = "Max(10)" -> Max(d, 10)

\* cfg.Define("PORT").Int64().Env("PORT") followed by the calls, in their order
RECURSIVE WithRules(_, _)
WithRules(d, steps) ==
    IF steps = <<>> THEN d ELSE WithRules(ApplyStep(d, Head(steps)), Tail(steps))

RuleChains == UNION {[1..n -> RuleSteps] : n \in 0..MaxRules}

\* the raw strings a source supplies for the key
RawChoices == {<<"2">>, <<"4">>, <<"7">>, <<"1", "2">>, <<"y">>}

----------------------------------------------------------------------------
(* The commands, middleware and argument lists explored *)

\* cfg.UseMiddleware calls and cfg.Command chains an application makes
MaxUse == 2
MaxCommand == 1

\* two global middleware that call next and one that does not
GlobalMwChoices == {Mw("G1", TRUE), Mw("G2", TRUE), Mw("GX", FALSE)}

\* cfg.Command("start").Func(startFn).Aliases("s", "run").Middleware(C1).Middleware(C2)
CmdStart ==
    CmdMiddleware(CmdMiddleware(CmdAliases(CmdFunc(newCommand("start"), "startFn"),
                                           <<"s", "run">>),
                                Mw("C1", TRUE)), Mw("C2", TRUE))
\* the same command with a second middleware that does not call next
CmdStartGuarded ==
    CmdMiddleware(CmdMiddleware(CmdAliases(CmdFunc(newCommand("start"), "startFn"),
                                           <<"s", "run">>),
                                Mw("C1", TRUE)), Mw("CX", FALSE))
\* cc.Define("PORT").Int64().Env("PORT").Flag("port").Default(int64(3)).Max(10)
PortCmd ==
    Max(Default(Flag(Env(Int64(newDefinition("PORT")), "PORT"), "port"), VInt(3)), 10)
\* cfg.Command("serve").Func(serveFn).Config(func(cc) { cc.Define("PORT")... })
CmdServe(globalDefs, ds) ==
    CmdConfig(CmdFunc(newCommand("serve"), "serveFn"), globalDefs, ds)
\* cfg.Command("db").Func(dbFn).SubCommand("migrate").Func(migrateFn).Aliases("m")
CmdDb ==
    CmdSubCommand(CmdFunc(newCommand("db"), "dbFn"),
                  CmdAliases(CmdFunc(newCommand("migrate"), "migrateFn"), <<"m">>))

\* cfg.Command("db").Func(dbFn).SubCommand("migrate").Func(migrateFn)
\*    .Aliases("m", "seed").Middleware(S1); a second chain on the same command
\* adds SubCommand("seed").Func(seedFn): "seed" is a name and an alias
CmdDbShadow ==
    CmdSubCommand(
        CmdSubCommand(CmdFunc(newCommand("db"), "dbFn"),
                      CmdMiddleware(CmdAliases(CmdFunc(newCommand("migrate"), "migrateFn"),
                                               <<"m", "seed">>),
                                    Mw("S1", TRUE))),
        CmdFunc(newCommand("seed"), "seedFn"))

\* the scoped middleware handed to UseMiddlewareForSubcommands
SubMwChoices ==
    {MwSub("M1", TRUE, "db", {"migrate"}), MwSub("MX", FALSE, "db", {"migrate"}),
     MwSub("M2", TRUE, "db", {"seed", "migrate"})}

CommandChoices(globalDefs) ==
    {CmdStart, CmdStartGuarded, CmdDb, CmdDbShadow,
     CmdServe(globalDefs, <<PortDefault>>), CmdServe(globalDefs, <<PortCmd>>),
     CmdServe(globalDefs, <<PortBadDefault>>)}

\* the argument lists handed to Execute
ExecArgs ==
    {<<Word("app")>>,
     <<Word("app"), Word("help")>>,
     <<Word("app"), Word("help"), Word("start")>>,
     <<Word("app"), Word("start")>>,
     <<Word("app"), Word("s")>>,
     <<Word("app"), Word("start"), Word("x")>>,
     <<Word("app"), Word("s"), Word("x")>>,
     <<Word("app"), Word("serve")>>,
     <<Word("app"), Word("serve"), FlagTok("port", <<"6">>)>>,
     <<Word("app"), Word("db")>>,
     <<Word("app"), Word("db"), Word("migrate"), Word("x")>>,
     <<Word("app"), Word("db"), Word("m"), Word("x")>>,
     <<Word("app"), Word("db"), Word("x")>>,
     <<Word("app"), Word("db"), Word("seed"), Word("x")>>,
     <<Word("app"), Word("nope")>>}

----------------------------------------------------------------------------
(* Pointers: the *Secret a caller holds *)

\* Secret.Destroy() calls a caller makes on one handle
MaxDestroy == 2

\* no handle obtained yet
NoHandle ==
    [key |-> "", attached |-> FALSE, s |-> [hasBuffer |-> FALSE, data |-> <<>>],
     seen |-> FALSE, nDestroy |-> 0]

\* the result of cfg.GetSecret(key): the pointer the store holds for the key
\* (attached: the handle and the store's entry are the same object), or the
\* address of a fresh Secret{}; seen is what IsSet() answered at that moment
HandleOf(store, key) ==
    [key |-> key, attached |-> key \in DOMAIN store, s |-> GetSecret(store, key),
     seen |-> IsSet(GetSecret(store, key)), nDestroy |-> 0]

\* a DestroyAll that drops the map without destroying the handles in it
HeldAfterDestroyAll_MapOnly(h) == [h EXCEPT !.attached = FALSE]

\* SecretStore.DestroyAll() seen through a handle: an object of the store is
\* destroyed, and the fresh map no longer holds it
HeldAfterDestroyAll(h) ==
    IF h.attached THEN [h EXCEPT !.attached = FALSE, !.s = SecretDestroy(h.s)] ELSE h

\* nothing noted down yet
NoSnap == [taken |-> FALSE]

\* no rate limiter created yet
NoMw == [made |-> FALSE, max |-> 0, window |-> "", k |-> 0, data |-> EmptyMap]

\* no call with arguments or a result made yet
NoCall == [fn |-> "", in |-> <<>>, out |-> <<>>]

----------------------------------------------------------------------------
(* The state machine *)

\* New()
Init ==
    /\ definitions = EmptyMap
    /\ values = EmptyMap
    /\ secrets = EmptyMap
    /\ flagValues = EmptyMap
    /\ fileConfig = NilFileConfig
    /\ overrideWarnings = <<>>
    /\ processed = FALSE
    /\ environ \in EnvChoices
    /\ osArgs \in ArgChoices
    /\ errs = <<>>
    /\ ret = NoRet
    /\ lastOp = "New"
    /\ nDefine = 0
    /\ nLoad = 0
    /\ held = NoHandle
    /\ snap = NoSnap
    /\ commands = EmptyMap
    /\ globalMiddleware = <<>>
    /\ call = NoCall
    /\ mw = NoMw

\* cfg.Define(key) followed by its builder chain
Define ==
    /\ nDefine < MaxDefine
    /\ \E key \in Keys : \E def \in DefChoices(key) :
          definitions' = MapSet(definitions, key, def)
    /\ nDefine' = nDefine + 1
    /\ lastOp' = "Define"
    /\ UNCHANGED mw
    /\ call' = NoCall
    /\ UNCHANGED cmdVars
    /\ ret' = NoRet
    /\ UNCHANGED <<values, secrets, flagValues, fileConfig, overrideWarnings,
                   processed, environ, osArgs, errs, nLoad, held, snap>>

\* cfg.Define("PORT") with the default given as an untyped constant
DefineIntDefault ==
    /\ nDefine < MaxDefine
    /\ definitions' = MapSet(definitions, "PORT", PortIntDefault)
    /\ nDefine' = nDefine + 1
    /\ lastOp' = "Define"
    /\ UNCHANGED mw
    /\ call' = NoCall
    /\ UNCHANGED cmdVars
    /\ ret' = NoRet
    /\ UNCHANGED <<values, secrets, flagValues, fileConfig, overrideWarnings,
                   processed, environ, osArgs, errs, nLoad, held, snap>>

\* cfg.LoadFile(filename), the file holding `content`
LoadFile ==
    /\ nLoad < MaxLoad
    /\ \E content \in FileChoices : fileConfig' = mergeFileData(fileConfig, content)
    /\ nLoad' = nLoad + 1
    /\ lastOp' = "LoadFile"
    /\ UNCHANGED mw
    /\ call' = NoCall
    /\ UNCHANGED cmdVars
    /\ ret' = NoRet
    /\ UNCHANGED <<definitions, values, secrets, flagValues, overrideWarnings,
                   processed, environ, osArgs, errs, nDefine, held, snap>>

\* Config.Process(), lines 96-166, the two map iterations in the given orders
ProcessBody(order, order2) ==
    LET fvals == ParseArgs(RegisterFlags(flagValues, definitions), FlagNames, osArgs)
        st0 == [values |-> IF processed THEN EmptyMap ELSE values,
                secrets |-> IF processed THEN DestroyAll(secrets) ELSE secrets,
                errs |-> <<>>]
        st == ProcessLoop(st0, order, definitions, fvals, environ, fileConfig)
        found == checkSourceOverrides(definitions, order2, fvals, environ)
    IN  /\ processed' = TRUE
        /\ flagValues' = fvals
        /\ values' = st.values
        /\ secrets' = st.secrets
        /\ held' = IF processed THEN HeldAfterDestroyAll(held) ELSE held
        /\ errs' = st.errs
        /\ overrideWarnings' = IF found # <<>> THEN found ELSE overrideWarnings

\* cfg.Process()
Process ==
    \E order \in Orders(DOMAIN definitions) : \E order2 \in Orders(DOMAIN definitions) :
            /\ ProcessBody(order, order2)
            /\ lastOp' = "Process"
            /\ UNCHANGED mw
            /\ call' = NoCall
            /\ UNCHANGED cmdVars
            /\ ret' = NoRet
            /\ UNCHANGED <<definitions, fileConfig, environ, osArgs, nDefine, nLoad, snap>>

\* cfg.Destroy()
Destroy ==
    /\ secrets' = DestroyAll(secrets)
    /\ held' = HeldAfterDestroyAll(held)
    /\ lastOp' = "Destroy"
    /\ UNCHANGED mw
    /\ call' = NoCall
    /\ UNCHANGED cmdVars
    /\ ret' = NoRet
    /\ UNCHANGED <<definitions, values, flagValues, fileConfig, overrideWarnings,
                   processed, environ, osArgs, errs, nDefine, nLoad, snap>>

\* Get[T](cfg, key)
GetCall ==
    /\ \E key \in Keys, T \in GetTypes :
          ret' = [op |-> "Get", key |-> key, T |-> T,
                  panic |-> Get(values, definitions, key, T).panic,
                  value |-> Get(values, definitions, key, T).value]
    /\ lastOp' = "Get"
    /\ UNCHANGED mw
    /\ call' = NoCall
    /\ UNCHANGED cmdVars
    /\ UNCHANGED <<definitions, values, secrets, flagValues, fileConfig, overrideWarnings,
                   processed, environ, osArgs, errs, nDefine, nLoad, held, snap>>

\* GetOr[T](cfg, key, GetOrDefault(T))
GetOrCall ==
    /\ \E key \in Keys, T \in GetTypes :
          ret' = [op |-> "GetOr", key |-> key, T |-> T,
                  panic |-> GetOr(values, key, T, GetOrDefault(T)).panic,
                  value |-> GetOr(values, key, T, GetOrDefault(T)).value]
    /\ lastOp' = "GetOr"
    /\ UNCHANGED mw
    /\ call' = NoCall
    /\ UNCHANGED cmdVars
    /\ UNCHANGED <<definitions, values, secrets, flagValues, fileConfig, overrideWarnings,
                   processed, environ, osArgs, errs, nDefine, nLoad, held, snap>>

\* h := cfg.GetSecret(key); h.IsSet()
GetSecretCall ==
    /\ \E key \in Keys : held' = HandleOf(secrets, key)
    /\ lastOp' = "GetSecret"
    /\ UNCHANGED mw
    /\ call' = NoCall
    /\ UNCHANGED cmdVars
    /\ ret' = NoRet
    /\ UNCHANGED <<definitions, values, secrets, flagValues, fileConfig, overrideWarnings,
                   processed, environ, osArgs, errs, nDefine, nLoad, snap>>

\* h.Destroy() on the handle the caller holds; the store's entry is the same
\* object as long as the handle is attached
SecretDestroyCall ==
    /\ held.key # ""
    /\ held.nDestroy < MaxDestroy
    /\ held' = [held EXCEPT !.s = SecretDestroy(@), !.nDestroy = @ + 1]
    /\ secrets' = IF held.attached
                  THEN [secrets EXCEPT ![held.key] = SecretDestroy(@)]
                  ELSE secrets
    /\ lastOp' = "Secret.Destroy"
    /\ UNCHANGED mw
    /\ call' = NoCall
    /\ UNCHANGED cmdVars
    /\ ret' = NoRet
    /\ UNCHANGED <<definitions, values, flagValues, fileConfig, overrideWarnings,
                   processed, environ, osArgs, errs, nDefine, nLoad, snap>>

\* the caller notes down what the Process() call that just returned left:
\* errs := cfg.Process(), the values map, the contents of the secret handles,
\* next to the definitions and the file data the run worked on
Observe ==
    /\ lastOp = "Process"
    /\ ~snap.taken
    /\ snap' = [taken |-> TRUE, definitions |-> definitions, fileConfig |-> fileConfig,
                errs |-> errs, values |-> values, secrets |-> secrets]
    /\ lastOp' = "Observe"
    /\ UNCHANGED mw
    /\ call' = NoCall
    /\ UNCHANGED cmdVars
    /\ ret' = NoRet
    /\ UNCHANGED <<definitions, values, secrets, flagValues, fileConfig, overrideWarnings,
                   processed, environ, osArgs, errs, nDefine, nLoad, held>>

\* cfg.Command(name) followed by its builder chain
Command ==
    /\ Cardinality(DOMAIN commands) < MaxCommand
    /\ \E cmd \in CommandChoices(definitions) :
          /\ commands' = MapSet(commands, cmd.Name, cmd)
          /\ call' = [fn |-> "Command", in |-> cmd, out |-> <<>>]
    /\ lastOp' = "Command"
    /\ UNCHANGED mw
    /\ ret' = NoRet
    /\ UNCHANGED <<definitions, values, secrets, flagValues, fileConfig, overrideWarnings,
                   processed, environ, osArgs, errs, nDefine, nLoad, held, snap,
                   globalMiddleware>>

\* cfg.UseMiddleware(m)
UseMiddleware ==
    /\ Len(globalMiddleware) < MaxUse
    /\ \E m \in GlobalMwChoices : globalMiddleware' = Append(globalMiddleware, m)
    /\ lastOp' = "UseMiddleware"
    /\ UNCHANGED mw
    /\ call' = NoCall
    /\ ret' = NoRet
    /\ UNCHANGED <<definitions, values, secrets, flagValues, fileConfig, overrideWarnings,
                   processed, environ, osArgs, errs, nDefine, nLoad, held, snap, commands>>

\* cfg.UseMiddlewareForSubcommands(command, names, m)
UseMiddlewareForSubcommands ==
    /\ Len(globalMiddleware) < MaxUse
    /\ \E m \in SubMwChoices : globalMiddleware' = Append(globalMiddleware, m)
    /\ lastOp' = "UseMiddlewareForSubcommands"
    /\ UNCHANGED mw
    /\ call' = NoCall
    /\ ret' = NoRet
    /\ UNCHANGED <<definitions, values, secrets, flagValues, fileConfig, overrideWarnings,
                   processed, environ, osArgs, errs, nDefine, nLoad, held, snap, commands>>

\* cfg.Execute(args)
Execute ==
    /\ \E args \in ExecArgs :
          IF Len(args) < 2
          THEN \E order \in Orders(DOMAIN definitions) :
               \E order2 \in Orders(DOMAIN definitions) :
                  /\ ProcessBody(order, order2)
                  /\ call' = [fn |-> "Execute", in |-> args,
                              out |-> IF errs' # <<>>
                                      THEN ExecResult(NoRun("global configuration errors",
                                                            EmptyMap), NoCtx, "")
                                      ELSE ShowGlobalHelp]
          ELSE /\ \E r \in ExecuteCommand(args, commands, globalMiddleware, values,
                                           environ, fileConfig, osArgs) :
                     call' = [fn |-> "Execute", in |-> args, out |-> r]
               /\ UNCHANGED <<values, secrets, flagValues, overrideWarnings, processed,
                              errs, held>>
    /\ lastOp' = "Execute"
    /\ UNCHANGED mw
    /\ ret' = NoRet
    /\ UNCHANGED cmdVars
    /\ UNCHANGED <<definitions, fileConfig, environ, osArgs, nDefine, nLoad, snap>>

\* secrets.Store(key, value): the map entry is a new object, so a handle the
\* caller took from the key before is no longer the stored one
StoreCall ==
    /\ \E key \in Keys, value \in StoreValues :
          /\ secrets' = Store(secrets, key, value)
          /\ held' = IF held.attached /\ held.key = key
                     THEN [held EXCEPT !.attached = FALSE]
                     ELSE held
          /\ call' = [fn |-> "Store", in |-> <<key, value>>, out |-> <<>>]
    /\ lastOp' = "Store"
    /\ UNCHANGED mw
    /\ ret' = NoRet
    /\ UNCHANGED cmdVars
    /\ UNCHANGED <<definitions, values, flagValues, fileConfig, overrideWarnings,
                   processed, environ, osArgs, errs, nDefine, nLoad, snap>>

\* maskSecret(value)
MaskCall ==
    /\ \E value \in MaskInputs :
          call' = [fn |-> "maskSecret", in |-> value, out |-> maskSecret(value)]
    /\ lastOp' = "maskSecret"
    /\ UNCHANGED mw
    /\ ret' = NoRet
    /\ UNCHANGED cmdVars
    /\ UNCHANGED <<definitions, values, secrets, flagValues, fileConfig, overrideWarnings,
                   processed, environ, osArgs, errs, nDefine, nLoad, held, snap>>

\* m := RateLimitMiddleware(max, window); ctx := NewCommandContext(...)
NewRateLimit ==
    /\ ~mw.made
    /\ \E max \in (0 - 1)..MaxRate, window \in Windows :
          mw' = [made |-> TRUE, max |-> max, window |-> window, k |-> 0, data |-> EmptyMap]
    /\ lastOp' = "NewRateLimit"
    /\ call' = NoCall
    /\ ret' = NoRet
    /\ UNCHANGED cmdVars
    /\ UNCHANGED <<definitions, values, secrets, flagValues, fileConfig, overrideWarnings,
                   processed, environ, osArgs, errs, nDefine, nLoad, held, snap>>

\* m(next)(ctx) on the same context once more
RateLimitCall ==
    /\ mw.made
    /\ mw.k < MaxInvoke
    /\ \E nextErr \in NextErrors :
          LET r == RateLimitMiddleware(mw.max, mw.window, NextCall(nextErr), mw.data)
          IN  /\ mw' = [mw EXCEPT !.k = @ + 1, !.data = r.data]
              /\ call' = [fn |-> "RateLimitMiddleware", in |-> [next |-> nextErr],
                          out |-> [err |-> r.err, calls |-> r.calls]]
    /\ lastOp' = "RateLimitCall"
    /\ ret' = NoRet
    /\ UNCHANGED cmdVars
    /\ UNCHANGED <<definitions, values, secrets, flagValues, fileConfig, overrideWarnings,
                   processed, environ, osArgs, errs, nDefine, nLoad, held, snap>>

\* AuthMiddleware(authFunc)(next)(ctx)
AuthCall ==
    /\ \E authErr \in AuthErrors, nextErr \in NextErrors :
          call' = [fn |-> "AuthMiddleware", in |-> [auth |-> authErr, next |-> nextErr],
                   out |-> AuthMiddleware(authErr, NextCall(nextErr))]
    /\ lastOp' = "AuthCall"
    /\ UNCHANGED mw
    /\ ret' = NoRet
    /\ UNCHANGED cmdVars
    /\ UNCHANGED <<definitions, values, secrets, flagValues, fileConfig, overrideWarnings,
                   processed, environ, osArgs, errs, nDefine, nLoad, held, snap>>

\* the parse and validation of one candidate value, definition_test.go 522-535
ValidateCall ==
    /\ \E steps \in RuleChains, raw \in RawChoices :
          LET def == WithRules(Env(Int64(newDefinition("PORT")), "PORT"), steps)
              parsed == parseValue(raw, def.valueType)
          IN  call' = [fn |-> "ParseAndValidate", in |-> [raw |-> raw, def |-> def],
                       out |-> [r |-> ParseAndValidate(raw, "env", def),
                                checked |-> IF parsed.err # NoErr THEN 0
                                            ELSE ChecksRun(def.validations, parsed.value)]]
    /\ lastOp' = "ParseAndValidate"
    /\ UNCHANGED mw
    /\ ret' = NoRet
    /\ UNCHANGED cmdVars
    /\ UNCHANGED <<definitions, values, secrets, flagValues, fileConfig, overrideWarnings,
                   processed, environ, osArgs, errs, nDefine, nLoad, held, snap>>

\* cfg.LoadFiles(f1, ..., fn), the files holding the trees of `files`
LoadFiles ==
    /\ nLoad < MaxLoad
    /\ \E files \in FileLists :
          /\ fileConfig' = LoadFilesOn(fileConfig, files)
          /\ call' = [fn |-> "LoadFiles", in |-> files, out |-> <<>>]
    /\ nLoad' = nLoad + 1
    /\ lastOp' = "LoadFiles"
    /\ UNCHANGED mw
    /\ ret' = NoRet
    /\ UNCHANGED cmdVars
    /\ UNCHANGED <<definitions, values, secrets, flagValues, overrideWarnings,
                   processed, environ, osArgs, errs, nDefine, held, snap>>

\* cfg.SetEnvironment(env)
SetEnvironment ==
    /\ \E env \in EnvNames : fileConfig' = SetEnvironmentOn(fileConfig, env)
    /\ lastOp' = "SetEnvironment"
    /\ UNCHANGED mw
    /\ ret' = NoRet
    /\ call' = NoCall
    /\ UNCHANGED cmdVars
    /\ UNCHANGED <<definitions, values, secrets, flagValues, overrideWarnings,
                   processed, environ, osArgs, errs, nDefine, nLoad, held, snap>>

Next == Define \/ LoadFile \/ Process \/ Destroy

Spec == Init /\ [][Next]_vars

\* the same machine with the read API, from the states without command-line flags
InitGet ==
    /\ Init
    /\ osArgs = <<>>

NextGet == Define \/ Process \/ Destroy \/ GetCall \/ GetOrCall

SpecGet == InitGet /\ [][NextGet]_vars

\* the read API over definitions whose default may be an untyped constant
NextType == Define \/ DefineIntDefault \/ Process \/ GetCall

SpecType == Init /\ [][NextType]_vars

\* the same machine with a caller that keeps a secret handle
InitHandle ==
    /\ Init
    /\ osArgs = <<>>

NextHandle == Define \/ Process \/ Destroy \/ GetSecretCall \/ SecretDestroyCall

SpecHandle == InitHandle /\ [][NextHandle]_vars

\* the same machine with commands: the process was started with the
\* argument list Execute gets, whose first argument is no flag
InitCmd ==
    /\ Init
    /\ osArgs = <<>>
    /\ environ["PORT"] = <<>>
    /\ environ["API_KEY"] # <<>>

NextCmd == Define \/ Command \/ UseMiddleware \/ Execute

SpecCmd == InitCmd /\ [][NextCmd]_vars

\* commands with subcommands and middleware scoped to subcommands
NextSub == Command \/ UseMiddlewareForSubcommands \/ UseMiddleware \/ Execute

SpecSub == InitCmd /\ [][NextSub]_vars

\* the vault alone, with a caller that holds one of its handles
InitStore ==
    /\ Init
    /\ osArgs = <<>>
    /\ environ["PORT"] = <<>>
    /\ environ["API_KEY"] = <<>>

NextStore == StoreCall \/ Destroy \/ GetSecretCall \/ SecretDestroyCall

SpecStore == InitStore /\ [][NextStore]_vars

\* maskSecret alone, applied to every input
NextMask == MaskCall

SpecMask == InitStore /\ [][NextMask]_vars

\* the library middleware alone, called by hand as the tests call them
NextMw == NewRateLimit \/ RateLimitCall \/ AuthCall

SpecMw == InitStore /\ [][NextMw]_vars

\* the validation of one candidate value alone
NextRules == ValidateCall

SpecRules == InitStore /\ [][NextRules]_vars

\* the same machine with files that have per-environment sections
InitFile ==
    /\ Init
    /\ osArgs = <<>>
    /\ environ["PORT"] = <<"5">>
    /\ environ["API_KEY"] # <<>>

NextFile == Define \/ LoadFiles \/ SetEnvironment \/ Process \/ Observe

SpecFile == InitFile /\ [][NextFile]_vars

\* the same machine with a caller that compares two runs of Process()
InitRerun ==
    /\ Init
    /\ environ["API_KEY"] # <<>>
    /\ environ["PORT"] # <<"5", "0">>
    /\ osArgs \in {<<>>, <<[name |-> "port", val |-> <<"6">>]>>}

NextRerun == Define \/ LoadFile \/ Process \/ Destroy \/ Observe

SpecRerun == InitRerun /\ [][NextRerun]_vars

----------------------------------------------------------------------------
(* Vocabulary of the properties *)

\* what resolveValueWithFiles returns for a defined key under the present inputs
Outcome(key) ==
    resolveValueWithFiles(key, definitions[key], flagValues, environ, fileConfig)

\* the flag of the key carries a non-empty value
HasFlagValue(key) ==
    /\ definitions[key].flag # ""
    /\ key \in DOMAIN flagValues
    /\ flagValues[key] # <<>>

\* the environment variable of the key carries a non-empty value
HasEnvValue(key) ==
    /\ definitions[key].envVar # ""
    /\ Getenv(environ, definitions[key].envVar) # <<>>

\* the loaded file data has an entry for the key
FileHasEntry(key) == getFileValue(fileConfig, key).exists

\* the entry is of a type the resolver does not convert (null, a nested table)
FileUnsupported(key) ==
    FileHasEntry(key) /\ ~FileSupported(getFileValue(fileConfig, key).value)

\* the raw string the file supplies for the key ("" when it supplies none)
FileRawOf(key) ==
    IF FileHasEntry(key) /\ ~FileUnsupported(key)
    THEN FileRaw(getFileValue(fileConfig, key).value, definitions[key])
    ELSE <<>>

\* the file supplies a non-empty value: a non-empty raw string
FileNonEmpty(key) == FileRawOf(key) # <<>>

\* the error records of the latest Process() for the key
ErrorsOf(key) == {j \in 1..Len(errs) : errs[j].Key = key}

\* the key has its resolved value r stored: in the values map, or, for a secret,
\* in the vault with the placeholder in the values map
StoredAs(key, r) ==
    IF definitions[key].secret /\ r.value # Nil
    THEN /\ key \in DOMAIN secrets
         /\ secrets[key] = newSecret(Sprintf(r.value))
         /\ key \in DOMAIN values
         /\ values[key] = VStr(SecretPlaceholder)
    ELSE /\ key \in DOMAIN values
         /\ values[key] = r.value
         /\ key \notin DOMAIN secrets

\* Process() reported exactly the error of r for the key and stored nothing
ReportedAs(key, r) ==
    /\ Cardinality(ErrorsOf(key)) = 1
    /\ \A j \in ErrorsOf(key) : errs[j].Source = r.source /\ errs[j].Message = r.err
    /\ key \notin DOMAIN values
    /\ key \notin DOMAIN secrets

\* the latest Process() settled the key as r
SettledAs(key, r) == IF r.err # NoErr THEN ReportedAs(key, r) ELSE StoredAs(key, r)

----------------------------------------------------------------------------
(* C1: for a definition with both a flag and an environment variable, when  *)
(* both carry a non-empty value and no file supplies the key, Process()     *)
(* resolves the key from the flag's value, with source "flag".              *)
C1_FlagBeatsEnv ==
    lastOp = "Process" =>
        \A key \in DOMAIN definitions :
            (HasFlagValue(key) /\ HasEnvValue(key) /\ ~FileHasEntry(key)) =>
                SettledAs(key, ParseAndValidate(flagValues[key], "flag", definitions[key]))

----------------------------------------------------------------------------
----------------------------------------------------------------------------
\* the rules of the definition other than those named "required"
NotRequiredRules(def) == SelectSeq(def.validations, LAMBDA rule : rule.Name # "required")

\* the default itself, unparsed, checked against the rules other than "required"
DefaultOutcome(def) ==
    [value |-> def.defaultValue, source |-> "default",
     err |-> RunValidations(NotRequiredRules(def), def.defaultValue, FALSE)]

\* the key has a default and no non-empty file, flag or environment value
OnlyDefault(key) ==
    /\ definitions[key].defaultValue # Nil
    /\ ~FileNonEmpty(key)
    /\ ~HasFlagValue(key)
    /\ ~HasEnvValue(key)

(* C3, as the specification states it: for every definition with a non-nil  *)
(* default and no non-empty file, flag or environment value, Process()      *)
(* resolves the key to exactly the default, unparsed, with the "required"   *)
(* rules skipped and every other rule run against the default, a failing    *)
(* rule producing an error for the key.                                     *)
C3_DefaultApplies ==
    lastOp = "Process" =>
        \A key \in DOMAIN definitions :
            OnlyDefault(key) => SettledAs(key, DefaultOutcome(definitions[key]))

(* C3, amended: the same, for keys for which the file data holds no entry   *)
(* of a type the resolver does not convert (such as null); such an entry    *)
(* ends the resolution with an error of source "file" and the default is    *)
(* not used.                                                                *)
C3_DefaultAppliesUnlessUnsupported ==
    lastOp = "Process" =>
        \A key \in DOMAIN definitions :
            /\ (OnlyDefault(key) /\ ~FileUnsupported(key)) =>
                    SettledAs(key, DefaultOutcome(definitions[key]))
            /\ (OnlyDefault(key) /\ FileUnsupported(key)) =>
                    /\ Cardinality(ErrorsOf(key)) = 1
                    /\ \A j \in ErrorsOf(key) : errs[j].Source = "file"
                    /\ key \notin DOMAIN values

\* a required key resolved to its empty default: the "required" rule was skipped
C3_Witness ==
    /\ lastOp = "Process"
    /\ "PORT" \in DOMAIN definitions
    /\ definitions["PORT"] = PortEmptyDefault
    /\ OnlyDefault("PORT")
    /\ ~FileUnsupported("PORT")
    /\ "PORT" \in DOMAIN values
    /\ values["PORT"] = VStr(<<>>)
    /\ ErrorsOf("PORT") = {}

----------------------------------------------------------------------------
\* the highest-priority source that carries a non-empty value, in the documented
\* order: file, then flag, then environment variable
TopSource(key) ==
    IF FileNonEmpty(key) THEN [raw |-> FileRawOf(key), source |-> "file"]
    ELSE IF HasFlagValue(key) THEN [raw |-> flagValues[key], source |-> "flag"]
    ELSE IF HasEnvValue(key)
         THEN [raw |-> Getenv(environ, definitions[key].envVar), source |-> "env"]
    ELSE [raw |-> <<>>, source |-> ""]

(* C4: when the highest-priority source that carries a non-empty value      *)
(* yields a parse error or a validation failure, Process() reports that     *)
(* error for the key, attributed to that source, and resolves nothing for   *)
(* the key from a lower-priority source or from the default.                *)
C4_TopSourceErrorReported ==
    lastOp = "Process" =>
        \A key \in DOMAIN definitions :
            LET top == TopSource(key)
                r == ParseAndValidate(top.raw, top.source, definitions[key])
            IN  (top.source # "" /\ r.err # NoErr /\ ~FileUnsupported(key)) =>
                    ReportedAs(key, r)

----------------------------------------------------------------------------
\* the key is required and has no file entry, flag value, environment value or default
NothingSupplied(key) ==
    /\ definitions[key].required
    /\ definitions[key].defaultValue = Nil
    /\ ~FileHasEntry(key)
    /\ ~HasFlagValue(key)
    /\ ~HasEnvValue(key)

(* C5: Process() evaluates every definition, whatever the other keys do:    *)
(* the returned list has exactly one error for each key whose resolution    *)
(* fails and none for a key that resolves, whose value is stored; a         *)
(* required key with no file, flag, environment or default value            *)
(* contributes exactly one error, with source "none".                       *)
C5_OneErrorPerFailingKey ==
    lastOp = "Process" =>
        /\ \A key \in DOMAIN definitions : SettledAs(key, Outcome(key))
        /\ \A key \in DOMAIN definitions :
              NothingSupplied(key) =>
                  /\ Cardinality(ErrorsOf(key)) = 1
                  /\ \A j \in ErrorsOf(key) : errs[j].Source = "none"
        /\ \A j \in 1..Len(errs) : errs[j].Key \in DOMAIN definitions
        /\ Len(errs) = Cardinality({key \in DOMAIN definitions : Outcome(key).err # NoErr})

\* two keys failed in one Process(), one of them a required key left unset
C5_Witness ==
    /\ lastOp = "Process"
    /\ DOMAIN definitions = Keys
    /\ Len(errs) = 2
    /\ NothingSupplied("API_KEY")
    /\ \E j \in ErrorsOf("API_KEY") : errs[j].Source = "none"
    /\ \E j \in ErrorsOf("PORT") : errs[j].Source = "env"

----------------------------------------------------------------------------
(* C6: a key for which the latest Process() reported an error has no entry  *)
(* in the values map and no handle in the secret vault: Has is false for it *)
(* and Get panics for it, whatever the type asked for.                      *)
C6_FailedKeyUnreadable ==
    \A j \in 1..Len(errs) :
        LET key == errs[j].Key
        IN  /\ key \notin DOMAIN values
            /\ key \notin DOMAIN secrets
            /\ ~Has(values, key)
            /\ \A T \in GetTypes : Get(values, definitions, key, T).panic # ""

\* a secret key failed its Max rule on a value from the environment
C6_Witness ==
    /\ lastOp = "Process"
    /\ "PORT" \in DOMAIN definitions
    /\ definitions["PORT"] = PortSecret
    /\ Getenv(environ, "PORT") = <<"5", "0">>
    /\ \E j \in ErrorsOf("PORT") : errs[j].Source = "env"
    /\ "PORT" \notin DOMAIN values
    /\ "PORT" \notin DOMAIN secrets

----------------------------------------------------------------------------
\* the values entry of every key marked secret is absent, nil or the placeholder
SecretsMasked ==
    \A key \in DOMAIN definitions :
        definitions[key].secret =>
            \/ key \notin DOMAIN values
            \/ values[key] = Nil
            \/ values[key] = VStr(SecretPlaceholder)

----------------------------------------------------------------------------
(* C8: Get[T] panics exactly when the key has no entry in the values map,   *)
(* or the key is marked secret, or the entry's runtime type is not T (a nil *)
(* entry has no type); otherwise it returns the stored entry.               *)
C8_GetPanicsExactly ==
    lastOp = "Get" =>
        LET key == ret.key
            noEntry == key \notin DOMAIN values
            marked == key \in DOMAIN definitions /\ definitions[key].secret
            otherType == key \in DOMAIN values /\ values[key].t # ret.T
        IN  /\ (ret.panic # "") <=> (noEntry \/ marked \/ otherType)
            /\ ret.panic = "" => ret.value = values[key]

\* Get[string] on a resolved secret: the entry is a string, and Get panics
C8_Witness ==
    /\ lastOp = "Get"
    /\ ret.key = "API_KEY"
    /\ ret.T = "string"
    /\ "API_KEY" \in DOMAIN values
    /\ values["API_KEY"].t = "string"
    /\ ret.panic = "is a secret"

----------------------------------------------------------------------------
----------------------------------------------------------------------------
(* C10, as the specification states it: after a Process() that returns no   *)
(* errors, every defined key has an entry in exactly one of the values map  *)
(* and the secret vault, except a key that resolved to no value and is not  *)
(* required, which has an entry in neither.                                 *)
C10_EntryInExactlyOne ==
    (lastOp = "Process" /\ errs = <<>>) =>
        \A key \in DOMAIN definitions :
            IF Outcome(key).value = Nil /\ ~definitions[key].required
            THEN key \notin DOMAIN values /\ key \notin DOMAIN secrets
            ELSE (key \in DOMAIN values) # (key \in DOMAIN secrets)

(* C10, amended: after a Process() that returns no errors, every defined    *)
(* key has an entry in the values map and holds its resolved value in       *)
(* exactly one place: a secret key has a handle in the vault and only the   *)
(* placeholder "[SECRET]" in the values map, any other key has its value in *)
(* the values map and no handle; a key that resolved to no value and is not *)
(* required has a nil entry in the values map (Has is false) and no handle. *)
C10_ValueInExactlyOne ==
    (lastOp = "Process" /\ errs = <<>>) =>
        \A key \in DOMAIN definitions :
            LET r == Outcome(key)
            IN  /\ key \in DOMAIN values
                /\ IF r.value = Nil
                   THEN /\ ~definitions[key].required
                        /\ values[key] = Nil
                        /\ ~Has(values, key)
                        /\ key \notin DOMAIN secrets
                   ELSE IF definitions[key].secret
                   THEN /\ values[key] = VStr(SecretPlaceholder)
                        /\ key \in DOMAIN secrets
                        /\ IsSet(secrets[key]) = (Sprintf(r.value) # <<>>)
                        /\ secrets[key].data = Sprintf(r.value)
                   ELSE /\ values[key] = r.value
                        /\ key \notin DOMAIN secrets

\* an error-free Process() with a resolved secret and an unset optional key
C10_Witness ==
    /\ lastOp = "Process"
    /\ errs = <<>>
    /\ DOMAIN definitions = Keys
    /\ definitions["PORT"] = PortOptional
    /\ values["PORT"] = Nil
    /\ definitions["API_KEY"].secret
    /\ values["API_KEY"] = VStr(SecretPlaceholder)
    /\ "API_KEY" \in DOMAIN secrets

----------------------------------------------------------------------------
\* every entry of the values map and of the vault is one the latest run resolved
OnlyFreshEntries ==
    /\ \A key \in DOMAIN values :
          /\ key \in DOMAIN definitions
          /\ Outcome(key).err = NoErr
          /\ StoredAs(key, Outcome(key))
    /\ \A key \in DOMAIN secrets :
          /\ key \in DOMAIN definitions
          /\ definitions[key].secret
          /\ Outcome(key).err = NoErr
          /\ secrets[key] = newSecret(Sprintf(Outcome(key).value))

(* C11: Process() on an already-processed Config destroys the secret        *)
(* handles of the previous run and empties the values map before resolving: *)
(* a handle obtained through GetSecret before the run reports IsSet() =     *)
(* false after it and is no longer the store's handle, and every entry of   *)
(* the values map and of the vault is one that this run resolved.           *)
C11_RerunStartsClean ==
    lastOp = "Process" =>
        /\ ~IsSet(held.s)
        /\ ~held.attached
        /\ OnlyFreshEntries

\* a handle that was set when obtained is unset after the re-run, without the
\* caller having destroyed it, and the re-run stored a fresh handle for the key
C11_Witness ==
    /\ lastOp = "Process"
    /\ held.seen
    /\ held.nDestroy = 0
    /\ ~IsSet(held.s)
    /\ held.key \in DOMAIN secrets
    /\ IsSet(secrets[held.key])

----------------------------------------------------------------------------
\* the definitions and the file data (with the active environment) are those of
\* the run noted down; the command line and the environment variables never
\* change in this model
SameInputs ==
    /\ snap.taken
    /\ snap.definitions = definitions
    /\ snap.fileConfig = fileConfig

\* a list of errors as the set of its records
ErrorSet(list) == {list[j] : j \in 1..Len(list)}

(* C12: a Process() call that runs on the same definitions, file data,      *)
(* active environment, command line and environment variables as an earlier *)
(* call returns the same errors (in the order of that run's map iteration), *)
(* leaves the same values map and leaves secret handles with the same       *)
(* contents for the same keys.                                              *)
C12_RerunSameResult ==
    (lastOp = "Process" /\ SameInputs) =>
        /\ ErrorSet(errs) = ErrorSet(snap.errs)
        /\ Len(errs) = Len(snap.errs)
        /\ values = snap.values
        /\ DOMAIN secrets = DOMAIN snap.secrets
        /\ \A key \in DOMAIN secrets :
              SecretString(secrets[key]) = SecretString(snap.secrets[key])

\* a second run on unchanged inputs, with a flag value, an error and a secret
C12_Witness ==
    /\ lastOp = "Process"
    /\ SameInputs
    /\ errs # <<>>
    /\ \E key \in DOMAIN secrets : IsSet(secrets[key])
    /\ \E key \in DOMAIN flagValues : flagValues[key] # <<>>

----------------------------------------------------------------------------
\* a position of the file tree: the child `name` of a table
Child(node, name) ==
    IF node.exists /\ node.value.kind = "map" /\ name \in DOMAIN node.value.items
    THEN [value |-> node.value.items[name], exists |-> TRUE]
    ELSE [value |-> FNull, exists |-> FALSE]

\* the position a path of names leads to
RECURSIVE At(_, _)
At(node, path) == IF path = <<>> THEN node ELSE At(Child(node, Head(path)), Tail(path))

\* the paths the claim lists for a key, in their order
Probes(fc, key) ==
    (IF fc.environment # ""
     THEN << <<"environments", fc.environment, key>>,
             <<"environments", fc.environment, ToLower(key)>> >>
     ELSE <<>>)
    \o << <<key>>, <<ToLower(key)>> >>

\* the first path that leads to an entry, or absence
RECURSIVE FirstHit(_, _)
FirstHit(root, probes) ==
    IF probes = <<>> THEN [value |-> FNull, exists |-> FALSE]
    ELSE IF At(root, Head(probes)).exists THEN At(root, Head(probes))
    ELSE FirstHit(root, Tail(probes))

\* the lookup of the key as the claim describes it
ExpectedLookup(fc, key) ==
    FirstHit([value |-> FMap(fc.data), exists |-> ~fc.isNil], Probes(fc, key))

(* C13: the file lookup of a key returns the first entry found at            *)
(* environments.E.<key>, environments.E.<lowercase key> (only with an active *)
(* environment E), <key>, <lowercase key>, and reports absence exactly when  *)
(* none of them exists; every Process() resolves each key from the lookup    *)
(* under the environment that is active when it runs.                        *)
C13_EnvironmentLookup ==
    /\ \A key \in Keys : getFileValue(fileConfig, key) = ExpectedLookup(fileConfig, key)
    /\ lastOp = "Process" =>
          \A key \in DOMAIN definitions :
              LET hit == ExpectedLookup(fileConfig, key)
                  raw == FileRaw(hit.value, definitions[key])
              IN  (hit.exists /\ FileSupported(hit.value) /\ raw # <<>>) =>
                      SettledAs(key, ParseAndValidate(raw, "file", definitions[key]))

\* the same file data resolved PORT to 3 under "dev" (exact key of the section)
\* and, after SetEnvironment("prod") and a new run, to 4 (lowercase key)
C13_Witness ==
    /\ lastOp = "Process"
    /\ snap.taken
    /\ snap.fileConfig.environment = "dev"
    /\ fileConfig.environment = "prod"
    /\ snap.fileConfig.data = fileConfig.data
    /\ "PORT" \in DOMAIN snap.values
    /\ snap.values["PORT"] = VInt(3)
    /\ "PORT" \in DOMAIN values
    /\ values["PORT"] = VInt(4)

----------------------------------------------------------------------------
\* the top-level data before a load (nothing when no file was loaded yet)
DataOf(fc) == IF fc.isNil THEN EmptyMap ELSE fc.data

\* the positions of the files of a list that define the top-level key k
Defining(files, k) == {i \in 1..Len(files) : k \in DOMAIN files[i]}

\* the largest element of a non-empty set of numbers
Last(S) == CHOOSE i \in S : \A j \in S : j <= i

(* C14: a LoadFiles(f1, ..., fn) step leaves under each top-level key the    *)
(* value of the last file that defines it, keeps the keys that only earlier  *)
(* data defines, and adds no other key; the `environments` key is treated as *)
(* any other, so the later subtree stands alone.                             *)
C14_ShallowMerge ==
    [][lastOp' = "LoadFiles" =>
          LET files == call'.in
              old   == DataOf(fileConfig)
              new   == fileConfig'.data
          IN  /\ ~fileConfig'.isNil
              /\ DOMAIN new = DOMAIN old \cup UNION {DOMAIN files[i] : i \in 1..Len(files)}
              /\ \A k \in DOMAIN new :
                    IF Defining(files, k) = {} THEN new[k] = old[k]
                    ELSE new[k] = files[Last(Defining(files, k))][k]
    ]_vars

\* two files with different `environments` subtrees were loaded: the second
\* subtree stands alone (its "dev" section is gone) and PORT, which only the
\* first file defines, is kept
C14_Witness ==
    /\ lastOp = "LoadFiles"
    /\ call.in = <<TreeBase, TreeLower>>
    /\ fileConfig.data["environments"] = TreeLower["environments"]
    /\ "dev" \notin DOMAIN fileConfig.data["environments"].items
    /\ fileConfig.data["PORT"] = TreeBase["PORT"]
    /\ fileConfig.data["port"] = TreeLower["port"]

----------------------------------------------------------------------------
(* C15: once Destroy() was called on a handle, the handle is unset, of size  *)
(* 0 and gives empty Bytes()/String(), whatever happens afterwards; a        *)
(* Destroy() on a handle that was already destroyed returns normally and     *)
(* changes neither the handle nor anything else of the configuration.        *)
C15_DestroyFinal ==
    /\ [](held.nDestroy >= 1 =>
             /\ ~IsSet(held.s)
             /\ Size(held.s) = 0
             /\ SecretBytes(held.s) = <<>>
             /\ SecretString(held.s) = <<>>)
    /\ [][(lastOp' = "Secret.Destroy" /\ held.nDestroy >= 1) =>
             /\ held'.s = held.s
             /\ ret' = NoRet
             /\ UNCHANGED <<secrets, values, errs, definitions>>
       ]_vars

\* a handle that held a value was destroyed twice
C15_Witness ==
    /\ lastOp = "Secret.Destroy"
    /\ held.seen
    /\ held.nDestroy = MaxDestroy
    /\ ~IsSet(held.s)

----------------------------------------------------------------------------
(* C16: every DestroyAll(), the first as well as one that follows another,   *)
(* destroys the stored handle a caller holds and leaves Get(k) unset for     *)
(* every key; Get(k) of a key that is not stored gives a usable handle that  *)
(* is unset, of size 0; every Store(k, v) with v non-empty, after a          *)
(* DestroyAll() included, makes Get(k) a set handle holding v.               *)
C16_DestroyAllThenReuse ==
    /\ [][lastOp' = "Destroy" =>
             /\ held.attached => ~IsSet(held'.s)
             /\ \A k \in Keys : ~IsSet(StoreGet(secrets', k)) /\ Size(StoreGet(secrets', k)) = 0
       ]_vars
    /\ []((lastOp = "GetSecret" /\ held.key \notin DOMAIN secrets) =>
             ~IsSet(held.s) /\ Size(held.s) = 0 /\ SecretString(held.s) = <<>>)
    /\ [][(lastOp' = "Store" /\ call'.in[2] # <<>>) =>
             /\ IsSet(StoreGet(secrets', call'.in[1]))
             /\ SecretString(StoreGet(secrets', call'.in[1])) = call'.in[2]
       ]_vars

\* a handle that held a value was destroyed by DestroyAll (never by its own
\* Destroy), and a Store on its key then made the key set again
C16_Witness ==
    /\ lastOp = "Store"
    /\ held.seen
    /\ held.nDestroy = 0
    /\ ~held.attached
    /\ ~IsSet(held.s)
    /\ call.in[1] = held.key
    /\ IsSet(StoreGet(secrets, held.key))
    /\ SecretString(StoreGet(secrets, held.key)) = call.in[2]

----------------------------------------------------------------------------
(* C17: maskSecret(s) is "****" for every s of length at most 4, the empty   *)
(* string included; for a longer s it has the length of s, the first two and *)
(* the last two characters of s, and '*' everywhere between (lengths and     *)
(* characters counted in bytes, as len and slicing of a Go string do).       *)
C17_MaskShape ==
    call.fn = "maskSecret" =>
        LET s == call.in
            m == call.out
            n == Len(s)
        IN  IF n <= 4 THEN m = <<"*", "*", "*", "*">>
            ELSE /\ Len(m) = n
                 /\ m[1] = s[1] /\ m[2] = s[2]
                 /\ m[n - 1] = s[n - 1] /\ m[n] = s[n]
                 /\ \A i \in 3..(n - 2) : m[i] = "*"

\* a string of the greatest length whose interior had no '*' was masked
C17_Witness ==
    /\ call.fn = "maskSecret"
    /\ Len(call.in) = MaxMaskLen
    /\ \A i \in 1..MaxMaskLen : call.in[i] # "*"
    /\ call.out[3] = "*"
    /\ call.out[1] = call.in[1]

----------------------------------------------------------------------------
\* the last operation was an Execute that dispatched a command
Dispatched == lastOp = "Execute" /\ call.out.Command # ""

\* the command or subcommand the last Execute dispatched
DispatchedCmd ==
    LET top == commands[call.out.Command]
    IN  IF call.out.SubCommand = "" THEN top
        ELSE top.SubCommands[CHOOSE n \in FindSubCommand(top, call.out.SubCommand) : TRUE]

\* the middleware registered for the dispatched context, in registration order
InScope(m) ==
    \/ m.kind = "all"
    \/ m.kind = "commands" /\ call.out.Command \in m.names
    \/ m.kind = "subcommands" /\ call.out.Command = m.command /\ call.out.SubCommand \in m.names
GlobalChain == SelectSeq(globalMiddleware, InScope)

\* how many middleware of a chain start: all of them, or those up to the
\* first that does not call next
Depth(chain) ==
    LET stops == {i \in 1..Len(chain) : ~chain[i].callsNext}
    IN  IF stops = {} THEN Len(chain) ELSE CHOOSE i \in stops : \A j \in stops : i <= j

\* every middleware of the chain calls next
AllPass(chain) == \A i \in 1..Len(chain) : chain[i].callsNext

\* starts in order, then `inner` if every middleware passed, then ends in
\* reverse order
Nested(chain, inner) ==
    [i \in 1..Depth(chain) |-> [ev |-> "enter", id |-> chain[i].id]]
    \o (IF AllPass(chain) THEN inner ELSE <<>>)
    \o [i \in 1..Depth(chain) |-> [ev |-> "exit", id |-> chain[Depth(chain) + 1 - i].id]]

\* the events of the claim for the dispatched command
ExpectedTrace ==
    Nested(GlobalChain \o DispatchedCmd.Middleware,
           <<[ev |-> "func", id |-> DispatchedCmd.Func]>>)

(* C18 as stated: every Execute that dispatches a command starts the global  *)
(* middleware in registration order, then the command's middleware in        *)
(* registration order, then runs the command function once, and ends the     *)
(* middleware in reverse order; a middleware that does not call next stops   *)
(* everything after it.                                                      *)
C18_OrderAlways == Dispatched => call.out.trace = ExpectedTrace

(* C18: the order of the claim holds for every Execute that dispatches a     *)
(* command, except when the command's own configuration fails to process:    *)
(* that step runs after the global middleware have started and before the    *)
(* command's middleware, and on failure only the global middleware run.      *)
C18_OrderUnlessConfigFails ==
    Dispatched =>
        IF call.out.err = "command configuration errors"
        THEN /\ AllPass(GlobalChain)
             /\ call.out.trace = Nested(GlobalChain, <<>>)
        ELSE call.out.trace = ExpectedTrace

\* two global and two command middleware ran around the command function,
\* the global ones in the order they were registered (G2 first)
C18_Witness ==
    /\ Dispatched
    /\ globalMiddleware = <<Mw("G2", TRUE), Mw("G1", TRUE)>>
    /\ call.out.trace = <<[ev |-> "enter", id |-> "G2"], [ev |-> "enter", id |-> "G1"],
                          [ev |-> "enter", id |-> "C1"], [ev |-> "enter", id |-> "C2"],
                          [ev |-> "func", id |-> "startFn"],
                          [ev |-> "exit", id |-> "C2"], [ev |-> "exit", id |-> "C1"],
                          [ev |-> "exit", id |-> "G1"], [ev |-> "exit", id |-> "G2"]>>

----------------------------------------------------------------------------
\* the registered top-level commands that declare the word as an alias
AliasedBy(w) ==
    {n \in DOMAIN commands : \E i \in 1..Len(commands[n].Aliases) : commands[n].Aliases[i] = w}

\* the argument list with the command word replaced by a name
WithName(args, n) == [args EXCEPT ![2] = Word(n)]

(* C19: an Execute whose args[1] is an alias declared for a top-level        *)
(* command does what Execute does with the command's name in its place: the *)
(* same events (the same command function), the same error, the same         *)
(* remaining arguments.                                                      *)
C19_AliasDispatches ==
    (lastOp = "Execute" /\ Len(call.in) >= 2) =>
        \A n \in AliasedBy(call.in[2].word) :
            (call.in[2].word \notin DOMAIN commands \cup HelpWords) =>
                \E r \in ExecuteCommand(WithName(call.in, n), commands, globalMiddleware,
                                        values, environ, fileConfig, osArgs) :
                    /\ call.out.trace = r.trace
                    /\ call.out.err = r.err
                    /\ call.out.Args = r.Args

----------------------------------------------------------------------------
\* the command definition of a key differs from the global one in its flag,
\* its environment variable or its default
DeclaredDifferently(g, c) ==
    g.flag # c.flag \/ g.envVar # c.envVar \/ g.defaultValue # c.defaultValue

\* the global Config holds the command-override warning for the key
HasCommandWarning(key, command) ==
    \E i \in 1..Len(overrideWarnings) :
        /\ overrideWarnings[i].Key = key
        /\ overrideWarnings[i].Command = command
        /\ overrideWarnings[i].Source = "global config"
        /\ overrideWarnings[i].OverrideBy = "command config"

(* C20: after a cfg.Command(name)...Config(fn) chain, for every key that fn  *)
(* declares and the global config defines: if the two definitions differ in  *)
(* flag, environment variable or default, the global Config holds an         *)
(* override warning for the key and the command, from "global config" to     *)
(* "command config"; if they are identical it holds none.                    *)
C20_CommandOverrideWarned ==
    lastOp = "Command" =>
        \A key \in DOMAIN call.in.Definitions \cap DOMAIN definitions :
            IF DeclaredDifferently(definitions[key], call.in.Definitions[key])
            THEN HasCommandWarning(key, call.in.Name)
            ELSE (call.in.Definitions[key] = definitions[key]) =>
                     ~HasCommandWarning(key, call.in.Name)

----------------------------------------------------------------------------
\* the key has a default
HasDefault(key) == definitions[key].defaultValue # Nil

\* the warnings the claim lists for the current flags, environment and defaults
WarningsDue ==
    {<<key, "environment", "flag">> :
        key \in {k \in DOMAIN definitions : HasFlagValue(k) /\ HasEnvValue(k)}}
    \cup {<<key, "default", "flag">> :
        key \in {k \in DOMAIN definitions : HasFlagValue(k) /\ HasDefault(k)}}
    \cup {<<key, "default", "environment">> :
        key \in {k \in DOMAIN definitions :
                    HasEnvValue(k) /\ HasDefault(k) /\ ~HasFlagValue(k)}}

\* key, overridden source and overriding source of the warnings of a collection
WarningSet(ws) == {<<ws[i].Key, ws[i].Source, ws[i].OverrideBy>> : i \in 1..Len(ws)}

\* the keys whose resolution fails
FailingKeys ==
    {key \in DOMAIN definitions :
        resolveValueWithFiles(key, definitions[key], flagValues, environ, fileConfig).err
            # NoErr}

(* C21: a Process() whose override pass finds something leaves exactly the   *)
(* warnings the claim lists, one record each: flag over environment when     *)
(* both are non-empty, flag over default when the flag is non-empty and a    *)
(* default exists, environment over default only when the flag is empty;     *)
(* whatever is recorded, every key is settled as its resolution alone        *)
(* decides and the errors are those of the failing keys, one each.           *)
C21_OverridePassDiagnostic ==
    lastOp = "Process" =>
        /\ WarningsDue # {} =>
              /\ WarningSet(overrideWarnings) = WarningsDue
              /\ Len(overrideWarnings) = Cardinality(WarningsDue)
        /\ \A key \in DOMAIN definitions :
              SettledAs(key, resolveValueWithFiles(key, definitions[key], flagValues,
                                                   environ, fileConfig))
        /\ Len(errs) = Cardinality(FailingKeys)

\* flag, environment variable and default are all present for PORT: two
\* warnings are recorded, and PORT is resolved without error
C21_Witness ==
    /\ lastOp = "Process"
    /\ "PORT" \in DOMAIN definitions
    /\ HasFlagValue("PORT") /\ HasEnvValue("PORT") /\ HasDefault("PORT")
    /\ Len(overrideWarnings) = 2
    /\ "PORT" \in DOMAIN values
    /\ errs = <<>>

----------------------------------------------------------------------------
(* C22: AuthMiddleware calls next exactly when authFunc returns nil and then *)
(* returns what next returned; when authFunc returns an error e, next is not *)
(* called and the error returned is "authentication failed: " followed by    *)
(* the message of e, with e as the wrapped error.                            *)
C22_AuthGuardsNext ==
    call.fn = "AuthMiddleware" =>
        IF call.in.auth = NilError
        THEN call.out.calls = 1 /\ call.out.err = call.in.next
        ELSE /\ call.out.calls = 0
             /\ Head(call.out.err) = "authentication failed: "
             /\ Tail(call.out.err) = call.in.auth

\* authFunc returned nil and next's own error came back unchanged
C22_Witness ==
    /\ call.fn = "AuthMiddleware"
    /\ call.in.auth = NilError
    /\ call.in.next = <<"command error">>
    /\ call.out.err = <<"command error">>
    /\ call.out.calls = 1

----------------------------------------------------------------------------
(* C23: the k-th invocation of one rate limiter on one context calls next    *)
(* exactly when k <= max and then returns next's result; for k > max it      *)
(* returns the "rate limit exceeded: ..." error without calling next; after  *)
(* the k-th invocation the stored execution count is k, rejected             *)
(* invocations included.                                                     *)
C23_RateLimitCounts ==
    lastOp = "RateLimitCall" =>
        /\ mw.data["execution_count"] = mw.k
        /\ IF mw.k <= mw.max
           THEN call.out.calls = 1 /\ call.out.err = call.in.next
           ELSE /\ call.out.calls = 0
                /\ Head(call.out.err) = "rate limit exceeded: "

\* with a maximum of 2 the third invocation was rejected, and counted
C23_Witness ==
    /\ lastOp = "RateLimitCall"
    /\ mw.max = 2
    /\ mw.k = 3
    /\ call.out.calls = 0
    /\ mw.data["execution_count"] = 3

----------------------------------------------------------------------------
\* the positions of the rules of the definition that reject the value
FailingRules(def, v) == {i \in 1..Len(def.validations) : Check(def.validations[i], v) # NoErr}

\* the first of them in declaration order
FirstFailing(def, v) ==
    CHOOSE i \in FailingRules(def, v) : \A j \in FailingRules(def, v) : i <= j

(* C24: for a candidate value that parses, the error of the key is that of   *)
(* the first rule, in the order the rules were added, that rejects the       *)
(* value, and the rules after it are not evaluated; with no rejecting rule   *)
(* there is no error and every rule was evaluated.                           *)
C24_FirstFailingRule ==
    call.fn = "ParseAndValidate" =>
        LET def == call.in.def
            parsed == parseValue(call.in.raw, def.valueType)
        IN  parsed.err = NoErr =>
                IF FailingRules(def, parsed.value) = {}
                THEN /\ call.out.r.err = NoErr
                     /\ call.out.checked = Len(def.validations)
                ELSE /\ call.out.r.err =
                            Check(def.validations[FirstFailing(def, parsed.value)], parsed.value)
                     /\ call.out.checked = FirstFailing(def, parsed.value)

\* 4 breaks both Max(3) and Min(5), added in this order: the error is that
\* of Max and Min was not evaluated
C24_Witness ==
    /\ call.fn = "ParseAndValidate"
    /\ call.in.raw = <<"4">>
    /\ call.in.def.validations = <<validateMax(3), validateMin(5)>>
    /\ call.out.r.err = "value is greater than maximum"
    /\ call.out.checked = 1

----------------------------------------------------------------------------
\* the arguments of the latest Execute after the command word
RestArgs == SubSeq(call.in, 3, Len(call.in))

\* the subcommands of the command the claim selects for a word: the one of
\* that name, else those with that alias
SelectedSubs(top, w) ==
    IF w \in DOMAIN top.SubCommands THEN {w}
    ELSE {n \in DOMAIN top.SubCommands :
            \E i \in 1..Len(top.SubCommands[n].Aliases) : top.SubCommands[n].Aliases[i] = w}

\* the events of a dispatch to cmd: the middleware in scope around its function
TraceOf(cmd) ==
    Nested(GlobalChain \o cmd.Middleware, <<[ev |-> "func", id |-> cmd.Func]>>)

\* the latest Execute dispatched as the claim says, for a registered args[1]
DispatchedAsClaimed ==
    LET top == commands[call.in[2].word]
        subs == IF RestArgs = <<>> THEN {} ELSE SelectedSubs(top, RestArgs[1].word)
    IN  IF subs # {}
        THEN /\ call.out.SubCommand = RestArgs[1].word
             /\ call.out.Args = Tail(RestArgs)
             /\ call.out.err # "command configuration errors" =>
                   \E n \in subs : call.out.trace = TraceOf(top.SubCommands[n])
        ELSE /\ call.out.SubCommand = ""
             /\ call.out.Args = RestArgs
             /\ call.out.err # "command configuration errors" =>
                   call.out.trace = TraceOf(top)

\* the latest Execute returned the unknown-command error and ran nothing
UnknownCommand == call.out.err = "unknown command" /\ call.out.trace = <<>>

----------------------------------------------------------------------------
\* the middleware at position i of the global list started in the latest Execute
Started(i) ==
    \E k \in 1..Len(call.out.trace) :
        call.out.trace[k] = [ev |-> "enter", id |-> globalMiddleware[i].id]

\* the subcommands the latest Execute selected with its second word
DispatchedSubs ==
    IF RestArgs = <<>> THEN {}
    ELSE SelectedSubs(commands[call.out.Command], RestArgs[1].word)

\* every middleware registered before position i calls next
ReachedAt(i) == \A j \in 1..(i - 1) : globalMiddleware[j].callsNext

(* C30: a middleware registered with UseMiddlewareForSubcommands(cmd, names, *)
(* m) runs in every Execute that dispatches cmd to a subcommand whose name   *)
(* is in names, also when the command line gave an alias of it, and is       *)
(* bypassed in every other execution.                                        *)
C30_ScopedBySubcommandName ==
    Dispatched =>
        \A i \in 1..Len(globalMiddleware) :
            LET m == globalMiddleware[i]
            IN  (m.kind = "subcommands" /\ ReachedAt(i)
                 /\ \A j \in 1..Len(globalMiddleware) : j # i => globalMiddleware[j].id # m.id)
                => (Started(i) <=> /\ call.out.Command = m.command
                                   /\ \E n \in DispatchedSubs : n \in m.names)

----------------------------------------------------------------------------
\* the key is settled from the source a warning names as the overriding one
SettledFrom(key, by) ==
    IF by = "flag"
    THEN SettledAs(key, ParseAndValidate(flagValues[key], "flag", definitions[key]))
    ELSE SettledAs(key, ParseAndValidate(Getenv(environ, definitions[key].envVar), "env",
                                         definitions[key]))

(* C26: when Process() records a source-override warning for a key with      *)
(* OverrideBy "flag" (or "environment"), the same Process() settled that key *)
(* from the flag (or from the environment variable).                         *)
C26_WarningNamesUsedSource ==
    (lastOp = "Process" /\ WarningsDue # {}) =>
        \A i \in 1..Len(overrideWarnings) :
            SettledFrom(overrideWarnings[i].Key, overrideWarnings[i].OverrideBy)

----------------------------------------------------------------------------
\* Config.HasOverrideWarnings()
HasOverrideWarnings == Len(overrideWarnings) > 0

(* C27: after any Process(), GetOverrideWarnings() and HasOverrideWarnings() *)
(* describe only the overrides that call found: when it found none,          *)
(* HasOverrideWarnings() is false, whatever an earlier Process() recorded.   *)
C27_WarningsOfLatestProcess ==
    lastOp = "Process" =>
        /\ WarningSet(overrideWarnings) = WarningsDue
        /\ WarningsDue = {} => ~HasOverrideWarnings

----------------------------------------------------------------------------
\* the values map holds the placeholder Process() stores for a secret key
HasPlaceholder(key) ==
    /\ key \in DOMAIN definitions
    /\ definitions[key].secret
    /\ Has(values, key)
    /\ values[key] = VStr(SecretPlaceholder)

(* C28: in every state reached through Process(), Config.Destroy() and       *)
(* Secret.Destroy(), a secret key for which Has is true (the values map      *)
(* holds its placeholder) has a handle in the vault that is set.             *)
C28_PlaceholderMatchesVault ==
    \A key \in Keys :
        HasPlaceholder(key) => IsSet(GetSecret(secrets, key))

----------------------------------------------------------------------------
\* the Go type that corresponds to a declared ValueType
GoType(valueType) ==
    CASE valueType = TypeString -> "string"
      [] valueType = TypeInt64 -> "int64"
      [] valueType = TypeBool -> "bool"

\* the keys the latest Process() resolved without error to a non-nil value
ResolvedPlain ==
    {key \in DOMAIN definitions :
        /\ ~definitions[key].secret
        /\ Outcome(key).err = NoErr
        /\ Outcome(key).value # Nil}

(* C29: every non-secret key that Process() resolves without error to a      *)
(* non-nil value, from any source including the default, is stored with the  *)
(* Go type of its declared ValueType, so Get with that type does not panic.  *)
C29_StoredTypeIsDeclared ==
    lastOp = "Process" =>
        \A key \in ResolvedPlain :
            /\ key \in DOMAIN values
            /\ values[key].t = GoType(definitions[key].valueType)
            /\ Get(values, definitions, key, GoType(definitions[key].valueType)).panic = ""

====
